---- MODULE Spec2Model ----
(***************************************************************************)
(* Radio link and protocol recovery layer of the CanSat ground station:    *)
(* the XBee frame codec (src/src/xbee), the classification of received     *)
(* bytes (src/src/app/received_packet.rs), the reader thread that          *)
(* resynchronises on the byte stream and the command ledger                *)
(* (src/src/app/mod.rs).                                                   *)
(*                                                                         *)
(* Bytes are integers 0..255; byte strings are sequences of bytes.         *)
(***************************************************************************)
EXTENDS Integers, Sequences, FiniteSets, TLC

VARIABLES
    \* ---- codec harness: one packet pushed through serialise and decode
    cx_pc,              \* "init" | "encoded" | "decoded"
    cx_pkt,             \* the XbeePacket handed to serialise
    cx_wire,            \* the bytes serialise returned
    cx_dec,             \* the result decode returned for cx_wire
    cx_recv,            \* the ReceivedPacket made from cx_wire
    cx_rx,              \* the result of RxPacket::try_from on the decoded packet
    cx_req,             \* the TxRequest cx_pkt was made from, NoRequest without one
    cx_damage,          \* what happened to cx_wire on the way: "none" | "start" | "truncated" | "checksum" | "flip_type" | "flip_id" | "flip_data"
    \* ---- acknowledgement harness: recv_ack applied to a ledger
    ack_pc,             \* "init" | "applied"
    ack_in,             \* the TxStatus handed to recv_ack
    ack_prev,           \* the ledger recv_ack was applied to
    \* ---- GroundStationGui fields and statics used by the command path
    command_history,    \* BTreeMap<DateTime<Utc>, (String, CommandStatus)>
    cmd_receiver,       \* the commands waiting in the cmd_sender/cmd_receiver channel
    radio,              \* Option<Arc<FairMutex<..>>>: "none" | "open"
    radio_last_sent,    \* Instant of the last successful write (ms)
    FRAME_ID_COUNTER,   \* static AtomicU8
    radio_lock,         \* who holds a guard of the FairMutex of self.radio: subset of {"reader", "sender"}
    now,                \* Instant::now() in ms
    utc,                \* Utc::now()
    hc_pc,              \* position inside handle_commands
    hc_cursor,          \* key of the ledger entry the for loop is at
    hc_frame_id,        \* frame_id allocated for that entry
    transport_out,      \* frames written to the serial port, in write order
    written,            \* for each written frame: submission number of its command, time of the write
    opened_at,          \* Instant of the last open_radio_connection, -1 before the first
    nsub,               \* number of commands sent down cmd_sender so far
    nalloc,             \* number of frame ids allocated so far
    \* ---- radio_thread and its channel
    stream,             \* the bytes the radio will deliver
    stream_parts,       \* the noise and the frames the stream was put together from
    rd_pos,             \* how many of them the serial port has handed over
    buf,                \* buf[..write_idx]
    write_idx,
    rt_pc,              \* "check" | "read" | "scan" | "done" | "panicked"
    rt_exit,            \* why the thread ended
    packet_chan,        \* every ReceivedPacket sent down packet_tx, in order
    CURR_RADIO,         \* static AtomicUsize
    rx_alive,           \* the Receiver end of packet_tx still exists
    \* ---- every radio thread started so far
    radio_threads,      \* in spawn order: radio_num, position in the loop, why it ended
    \* ---- a conversion or parser called on its own
    fn_pc,              \* "off" | "call" | "returned"
    fn_in,              \* the argument
    fn_out,             \* the value returned
    \* ---- simulation mode: the statics shared with the sender thread, the GUI fields
    SEND_THREAD_STARTED,    \* static AtomicBool
    SEND_THREAD_PAUSED,     \* static AtomicBool
    SEND_THREAD_CANCEL,     \* static AtomicBool
    SENT_SIMPS,             \* static AtomicUsize
    simp_values,            \* Option<Vec<u32>>: the number of values, NO_SIMPS for None
    simp_graph_values,      \* Option<Vec<PlotPoint>>: the number of points, NO_SIMPS for None
    simp_threads,           \* every simp thread started so far: position, values left, paused
    gui_pc                  \* the GUI thread: "running" | "panicked"

cx_vars == <<cx_pc, cx_pkt, cx_wire, cx_dec, cx_recv, cx_rx, cx_req, cx_damage>>
ack_vars == <<ack_pc, ack_in, ack_prev>>
ledger_vars == <<command_history, cmd_receiver, radio, radio_last_sent,
                 FRAME_ID_COUNTER, radio_lock, now, utc, hc_pc, hc_cursor,
                 hc_frame_id, transport_out, written, opened_at, nsub, nalloc>>
reader_vars == <<stream, stream_parts, rd_pos, buf, write_idx, rt_pc, rt_exit, packet_chan,
                 CURR_RADIO, rx_alive>>
gen_vars == <<radio_threads>>

\* a function of the program applied to an input: where the call stands, the
\* input, the value returned
fn_vars == <<fn_pc, fn_in, fn_out>>
sim_vars == <<SEND_THREAD_STARTED, SEND_THREAD_PAUSED, SEND_THREAD_CANCEL, SENT_SIMPS,
              simp_values, simp_graph_values, simp_threads, gui_pc>>

vars == <<cx_vars, ack_vars, ledger_vars, reader_vars, gen_vars, fn_vars, sim_vars>>

----------------------------------------------------------------------------
(* Bytes and 8-bit wrapping arithmetic                                      *)

Byte == 0..255

\* Wrapping<u8> subtraction
WSub(a, b) == (a + 256 - b) % 256

\* Wrapping<u8> addition
WAdd(a, b) == (a + b) % 256

RECURSIVE Sum8(_)
\* fold(0u8, |acc, x| acc.wrapping_add(x)); wrapping addition is associative,
\* so the sum is taken by halves to keep the evaluation shallow
Sum8(s) ==
    IF Len(s) = 0 THEN 0
    ELSE IF Len(s) = 1 THEN s[1] % 256
    ELSE LET h == Len(s) \div 2
         IN WAdd(Sum8(SubSeq(s, 1, h)), Sum8(SubSeq(s, h + 1, Len(s))))

\* write_u16::<BigEndian>
U16BE(n) == <<(n % 65536) \div 256, n % 256>>

\* vec![b; n]
Fill(n, b) == [i \in 1..n |-> b]

\* all byte strings over alphabet A with at most n bytes
RECURSIVE SeqsUpTo(_, _)
SeqsUpTo(A, n) ==
    IF n = 0 THEN {<<>>}
    ELSE LET shorter == SeqsUpTo(A, n - 1)
         IN shorter \cup {Append(s, b) : s \in {t \in shorter : Len(t) = n - 1}, b \in A}

----------------------------------------------------------------------------
(* XbeePacket: serialise and decode (src/src/xbee/mod.rs)                   *)

START_DELIMITER == 126
QUIRK_LEN == 125
QUIRK_NEXT == 49
QUIRK_FIXED_LEN == 17

XbeePacket(ft, fid, d) == [frame_type |-> ft, frame_id |-> fid, data |-> d]

\* XbeePacket::serialise: 0x7E, u16 length = 2 + data.len(), frame type,
\* frame id, data, checksum = 0xFF - type - id - sum(data) (wrapping)
serialise(p) ==
    <<START_DELIMITER>>
        \o U16BE(2 + (Len(p.data) % 65536))
        \o <<p.frame_type, p.frame_id>>
        \o p.data
        \o <<WSub(WSub(WSub(255, p.frame_type), p.frame_id), Sum8(p.data))>>

DecodeErr(e) == [ok |-> FALSE, err |-> e, packet |-> XbeePacket(0, 0, <<>>)]
DecodeOk(p) == [ok |-> TRUE, err |-> "none", packet |-> p]

\* the length field as it was read, whatever its value
DecodeLen_asread(bytes) == bytes[2] * 256 + bytes[3]

\* the length decode works with: 0x007D followed by 0x31 is read as 0x11
DecodeLen(bytes) ==
    LET len == bytes[2] * 256 + bytes[3]
    IN IF len = QUIRK_LEN THEN QUIRK_FIXED_LEN ELSE len

\* number of bytes the cursor has consumed once the length is known
DecodeHeaderLen(bytes) ==
    IF bytes[2] * 256 + bytes[3] = QUIRK_LEN THEN 4 ELSE 3

\* number of data bytes the loop `for _ in 2..len` reads
DecodeDataLen(len) == IF len > 2 THEN len - 2 ELSE 0

\* XbeePacket::decode.  Every read_u8/read_u16 on the cursor fails with
\* UnexpectedEof when the slice is exhausted.
decode(bytes) ==
    IF Len(bytes) < 1 THEN DecodeErr("eof")
    ELSE IF bytes[1] # START_DELIMITER THEN DecodeErr("start_byte")
    ELSE IF Len(bytes) < 3 THEN DecodeErr("eof")
    ELSE IF bytes[2] * 256 + bytes[3] = QUIRK_LEN /\ Len(bytes) < 4 THEN DecodeErr("eof")
    ELSE IF bytes[2] * 256 + bytes[3] = QUIRK_LEN /\ bytes[4] # QUIRK_NEXT THEN DecodeErr("edge_case")
    ELSE LET len == DecodeLen(bytes)
             hdr == DecodeHeaderLen(bytes)
             n == DecodeDataLen(len)
         IN IF Len(bytes) < hdr + 2 + n + 1 THEN DecodeErr("eof")
            ELSE LET frame_type == bytes[hdr + 1]
                     frame_id == bytes[hdr + 2]
                     data == SubSeq(bytes, hdr + 3, hdr + 2 + n)
                     checksum == WSub(WSub(WSub(255, frame_type), frame_id), Sum8(data))
                     sent_checksum == bytes[hdr + 2 + n + 1]
                 IN IF checksum = sent_checksum
                    THEN DecodeOk(XbeePacket(frame_type, frame_id, data))
                    ELSE DecodeErr("checksum")

----------------------------------------------------------------------------
(* Received packets (src/src/xbee/rx_packet.rs, src/src/xbee/tx_status.rs,  *)
(* src/src/app/received_packet.rs)                                          *)

RX_PACKET_TYPE == 129
TX_STATUS_TYPE == 137

\* read_i8: the byte as a two's complement number
I8(b) == IF b >= 128 THEN b - 256 ELSE b

\* RxPacket::try_from: a u16, an i8 and a u8 are read from the front of the
\* packet data, the read fails when the data runs out
RxPacketTryFrom(xbp) ==
    IF xbp.frame_type # RX_PACKET_TYPE THEN [ok |-> FALSE, err |-> "IncorrectFrameType",
                                              src_addr |-> 0, rssi |-> 0, options |-> 0, data |-> <<>>]
    ELSE IF Len(xbp.data) < 4 THEN [ok |-> FALSE, err |-> "IoError",
                                    src_addr |-> 0, rssi |-> 0, options |-> 0, data |-> <<>>]
    ELSE [ok |-> TRUE, err |-> "none",
          src_addr |-> xbp.data[1] * 256 + xbp.data[2],
          rssi |-> I8(xbp.data[3]),
          options |-> xbp.data[4],
          data |-> SubSeq(xbp.data, 5, Len(xbp.data))]

\* the discriminants of enum TxStatus
TxStatusCodes ==
    {0, 1, 2, 3, 4, 21, 24, 33, 34, 35, 36, 37, 38, 43, 44, 45, 46, 49, 50, 52, 53}
        \cup (116..126) \cup (128..136) \cup {187, 255}

SUCCESS == 0
UNKNOWN == 255

\* TxStatus::from_u8(b).unwrap(): no variant for a byte that is not listed
TxStatusFromU8_unwrap(b) == IF b \in TxStatusCodes THEN b ELSE -1

\* TxStatus::from_u8(b).unwrap_or(TxStatus::UNKNOWN)
TxStatusFromU8(b) == IF b \in TxStatusCodes THEN b ELSE UNKNOWN

\* TxStatus::try_from: indexes data[0], which panics on empty data
TxStatusTryFrom(xbp) ==
    IF xbp.frame_type # TX_STATUS_TYPE THEN [outcome |-> "Err", status |-> UNKNOWN]
    ELSE IF Len(xbp.data) = 0 THEN [outcome |-> "Panic", status |-> UNKNOWN]
    ELSE [outcome |-> "Ok", status |-> TxStatusFromU8(xbp.data[1])]

IsCont(b) == b \in 128..191

\* number of continuation bytes a UTF-8 lead byte asks for, -1 for a byte
\* that cannot start a character
Utf8Need(b) ==
    IF b < 128 THEN 0
    ELSE IF b \in 194..223 THEN 1
    ELSE IF b \in 224..239 THEN 2
    ELSE IF b \in 240..244 THEN 3
    ELSE -1

\* the range the byte after lead byte b must lie in
Utf8Second(b) ==
    IF b = 224 THEN 160..191
    ELSE IF b = 237 THEN 128..159
    ELSE IF b = 240 THEN 144..191
    ELSE IF b = 244 THEN 128..143
    ELSE 128..191

\* String::from_utf8(..).is_ok()
IsUtf8(s) ==
    \A i \in 1..Len(s) :
        IF IsCont(s[i])
        THEN \E k \in 1..3 :
                /\ i - k >= 1
                /\ Utf8Need(s[i - k]) >= k
                /\ \A j \in (i - k + 1)..(i - 1) : IsCont(s[j])
        ELSE /\ Utf8Need(s[i]) >= 0
             /\ i + Utf8Need(s[i]) <= Len(s)
             /\ \A j \in 1..Utf8Need(s[i]) : IsCont(s[i + j])
             /\ Utf8Need(s[i]) >= 1 => s[i + 1] \in Utf8Second(s[i])

COMMA == 44
TELEMETRY_FIELDS == 19

COLON == 58
DOT == 46
PLUS == 43
MINUS == 45

IsDigit(b) == b \in 48..57
AllDigits(s) == s # <<>> /\ \A i \in 1..Len(s) : IsDigit(s[i])

\* str::find of one character: the position of its first occurrence, 0 for None
IndexOf(s, b) ==
    IF \E i \in 1..Len(s) : s[i] = b
    THEN CHOOSE i \in 1..Len(s) : s[i] = b /\ \A j \in 1..(i - 1) : s[j] # b
    ELSE 0

Before(s, i) == SubSeq(s, 1, i - 1)
After(s, i) == SubSeq(s, i + 1, Len(s))

U8_MAX == 255
U16_MAX == 65535

\* the number the first n digits of s stand for; it stays where it is once it
\* has passed every range of interest
PushDigit(v, d) == IF v > U16_MAX THEN v ELSE v * 10 + (d - 48)

RECURSIVE DigitsValue(_, _)
DigitsValue(s, n) == IF n = 0 THEN 0 ELSE PushDigit(DigitsValue(s, n - 1), s[n])

\* an optional plus sign is dropped by the integer parsers
Unsigned(s) == IF s # <<>> /\ s[1] = PLUS THEN Tail(s) ELSE s

\* u8::from_str / u16::from_str with max the largest value of the type: the
\* value, or -1 for an error (empty, a character that is no digit, overflow)
ParseUnsigned(s, max) ==
    IF ~AllDigits(Unsigned(s)) THEN -1
    ELSE IF DigitsValue(Unsigned(s), Len(Unsigned(s))) > max THEN -1
    ELSE DigitsValue(Unsigned(s), Len(Unsigned(s)))

\* s without its leading zeros
RECURSIVE StripZeros(_)
StripZeros(s) == IF Len(s) > 1 /\ s[1] = 48 THEN StripZeros(Tail(s)) ELSE s

\* s <= t for digit strings of the same length
RECURSIVE DigitsLeq(_, _)
DigitsLeq(s, t) ==
    IF s = <<>> THEN TRUE
    ELSE IF s[1] # t[1] THEN s[1] < t[1]
    ELSE DigitsLeq(Tail(s), Tail(t))

\* u32::MAX in digits
U32_MAX_DIGITS == <<52, 50, 57, 52, 57, 54, 55, 50, 57, 53>>

\* u32::from_str: the value as its decimal digits without leading zeros, or
\* <<>> for an error
ParseU32(s) ==
    IF ~AllDigits(Unsigned(s)) THEN <<>>
    ELSE IF Len(StripZeros(Unsigned(s))) < Len(U32_MAX_DIGITS) THEN StripZeros(Unsigned(s))
    ELSE IF Len(StripZeros(Unsigned(s))) = Len(U32_MAX_DIGITS)
            /\ DigitsLeq(StripZeros(Unsigned(s)), U32_MAX_DIGITS) THEN StripZeros(Unsigned(s))
    ELSE <<>>

\* a letter as its lower case letter
Lower(b) == IF b \in 65..90 THEN b + 32 ELSE b
LowerCase(s) == [i \in 1..Len(s) |-> Lower(s[i])]

\* the names f64::from_str accepts in any case
F64Names == {<<105, 110, 102>>, <<105, 110, 102, 105, 110, 105, 116, 121>>, <<110, 97, 110>>}

Signed(s) == IF s # <<>> /\ s[1] \in {PLUS, MINUS} THEN Tail(s) ELSE s

\* digits with at most one dot among them and at least one digit
IsDecimal(s) ==
    /\ \A i \in 1..Len(s) : IsDigit(s[i]) \/ s[i] = DOT
    /\ Cardinality({i \in 1..Len(s) : s[i] = DOT}) <= 1
    /\ \E i \in 1..Len(s) : IsDigit(s[i])

\* the position of the exponent letter, 0 without one
ExpAt(s) == IF IndexOf(s, 101) # 0 THEN IndexOf(s, 101) ELSE IndexOf(s, 69)

\* f64::from_str(s).is_ok(): a sign, then a name or a decimal number with an
\* optional exponent
F64Ok(s) ==
    \/ LowerCase(Signed(s)) \in F64Names
    \/ ExpAt(Signed(s)) = 0 /\ IsDecimal(Signed(s))
    \/ /\ ExpAt(Signed(s)) # 0
       /\ IsDecimal(Before(Signed(s), ExpAt(Signed(s))))
       /\ AllDigits(Signed(After(Signed(s), ExpAt(Signed(s)))))

\* the centisecond value of a time without centiseconds: u8::MAX
NO_CS == U8_MAX

ClockErr == [ok |-> FALSE, h |-> 0, m |-> 0, s |-> 0, cs |-> 0]

\* MissionTime::new
MissionTimeNew(h, m, s, cs) ==
    IF h < 24 /\ m < 60 /\ s < 60 /\ (cs < 100 \/ cs = NO_CS)
    THEN [ok |-> TRUE, h |-> h, m |-> m, s |-> s, cs |-> cs]
    ELSE ClockErr

\* the seconds and centiseconds of MissionTime::from_str once hours and
\* minutes are parsed: split at the first dot if there is one
MissionTimeSeconds(h, m, rest) ==
    IF h < 0 \/ m < 0 THEN ClockErr
    ELSE IF IndexOf(rest, DOT) # 0
    THEN IF ParseUnsigned(Before(rest, IndexOf(rest, DOT)), U8_MAX) < 0
            \/ ParseUnsigned(After(rest, IndexOf(rest, DOT)), U8_MAX) < 0
         THEN ClockErr
         ELSE MissionTimeNew(h, m, ParseUnsigned(Before(rest, IndexOf(rest, DOT)), U8_MAX),
                             ParseUnsigned(After(rest, IndexOf(rest, DOT)), U8_MAX))
    ELSE IF ParseUnsigned(rest, U8_MAX) < 0 THEN ClockErr
    ELSE MissionTimeNew(h, m, ParseUnsigned(rest, U8_MAX), NO_CS)

\* MissionTime::from_str once the hours are split off
MissionTimeMinutes(hs, rest) ==
    IF IndexOf(rest, COLON) = 0 THEN ClockErr
    ELSE MissionTimeSeconds(ParseUnsigned(hs, U8_MAX),
                            ParseUnsigned(Before(rest, IndexOf(rest, COLON)), U8_MAX),
                            After(rest, IndexOf(rest, COLON)))

\* MissionTime::from_str
MissionTimeFromStr(s) ==
    IF IndexOf(s, COLON) = 0 THEN ClockErr
    ELSE MissionTimeMinutes(Before(s, IndexOf(s, COLON)), After(s, IndexOf(s, COLON)))

\* GpsTime::new
GpsTimeNew(h, m, s) ==
    IF h >= 0 /\ m >= 0 /\ s >= 0 /\ h < 24 /\ m < 60 /\ s < 60
    THEN [ok |-> TRUE, h |-> h, m |-> m, s |-> s, cs |-> NO_CS]
    ELSE ClockErr

\* GpsTime::from_str once the hours are split off
GpsTimeMinutes(hs, rest) ==
    IF IndexOf(rest, COLON) = 0 THEN ClockErr
    ELSE GpsTimeNew(ParseUnsigned(hs, U8_MAX),
                    ParseUnsigned(Before(rest, IndexOf(rest, COLON)), U8_MAX),
                    ParseUnsigned(After(rest, IndexOf(rest, COLON)), U8_MAX))

\* GpsTime::from_str as derived from "{h:02}:{m:02}:{s:02}": the text is split
\* at its first two colons
GpsTimeFromStr(s) ==
    IF IndexOf(s, COLON) = 0 THEN ClockErr
    ELSE GpsTimeMinutes(Before(s, IndexOf(s, COLON)), After(s, IndexOf(s, COLON)))

\* the text split at its first n commas, <<>> when it has fewer
FieldBefore(field, rest) == IF rest = <<>> THEN <<>> ELSE <<field>> \o rest

RECURSIVE SplitFields(_, _)
SplitFields(s, n) ==
    IF n = 0 THEN <<s>>
    ELSE IF IndexOf(s, COMMA) = 0 THEN <<>>
    ELSE FieldBefore(Before(s, IndexOf(s, COMMA)),
                     SplitFields(After(s, IndexOf(s, COMMA)), n - 1))

\* one of the letters of a two-valued field
OneOf(f, letters) == Len(f) = 1 /\ f[1] \in letters

\* each of the nineteen fields is parsed by the FromStr of its type; the
\* state and the command echo take any text
TelemetryFieldsOk(f) ==
    /\ f # <<>>
    /\ ParseUnsigned(f[1], U16_MAX) >= 0
    /\ MissionTimeFromStr(f[2]).ok
    /\ ParseU32(f[3]) # <<>>
    /\ OneOf(f[4], {70, 83})
    /\ F64Ok(f[6])
    /\ OneOf(f[7], {80, 78})
    /\ OneOf(f[8], {67, 78})
    /\ OneOf(f[9], {77, 78})
    /\ F64Ok(f[10])
    /\ F64Ok(f[11])
    /\ GpsTimeFromStr(f[12]).ok
    /\ F64Ok(f[13])
    /\ F64Ok(f[14])
    /\ F64Ok(f[15])
    /\ ParseUnsigned(f[16], U8_MAX) >= 0
    /\ F64Ok(f[17])
    /\ F64Ok(f[18])

\* Telemetry::from_str(s).is_ok(), as derived from the display format: the
\* text is split at its first eighteen commas, the last field takes the rest
TelemetryFromStrOk(s) == TelemetryFieldsOk(SplitFields(s, TELEMETRY_FIELDS - 1))

NoPacket == XbeePacket(0, 0, <<>>)
NoStatus == [frame_id |-> 0, status |-> UNKNOWN]

Received(kind, xbp, ts) == [kind |-> kind, raw |-> <<>>, packet |-> xbp, tx_status |-> ts]
Invalid(bytes) == [kind |-> "Invalid", raw |-> bytes, packet |-> NoPacket, tx_status |-> NoStatus]
\* the conversion did not return: TxStatus::try_from panicked
ClassifyPanic == [kind |-> "Panic", raw |-> <<>>, packet |-> NoPacket, tx_status |-> NoStatus]

\* impl From<&[u8]> for ReceivedPacket, once XbeePacket::decode has returned dec
ReceivedPacketOf(raw_packet, dec) ==
    LET xbp == dec.packet
    IN IF ~dec.ok THEN Invalid(raw_packet)
       ELSE IF xbp.frame_type = RX_PACKET_TYPE
            THEN LET rxp == RxPacketTryFrom(xbp)
                 IN IF ~rxp.ok THEN Received("InvalidFrame", xbp, NoStatus)
                    ELSE IF ~IsUtf8(rxp.data) THEN Received("Received", xbp, NoStatus)
                    ELSE IF TelemetryFromStrOk(rxp.data) THEN Received("Telemetry", xbp, NoStatus)
                    ELSE Received("Received", xbp, NoStatus)
       ELSE IF xbp.frame_type = TX_STATUS_TYPE
            THEN LET st == TxStatusTryFrom(xbp)
                 IN IF st.outcome = "Panic" THEN ClassifyPanic
                    ELSE IF st.outcome = "Ok"
                         THEN Received("Status", xbp, [frame_id |-> xbp.frame_id, status |-> st.status])
                         ELSE Received("InvalidFrame", xbp, NoStatus)
       ELSE Received("Unrecognised", xbp, NoStatus)

\* impl From<&[u8]> for ReceivedPacket
ReceivedPacketFrom(raw_packet) == ReceivedPacketOf(raw_packet, decode(raw_packet))

----------------------------------------------------------------------------
(* radio_thread (src/src/app/mod.rs)                                        *)

BUFSIZ == 4096
TAIL_WINDOW == 256
PACKET_OVERHEAD == 5

\* the generation radio_thread was started with
radio_num == 1

\* the candidates: the offsets (0-based) of the start bytes in buf[..write_idx]
RECURSIVE Ascending(_)
Ascending(S) ==
    IF S = {} THEN <<>>
    ELSE <<CHOOSE m \in S : \A k \in S : m <= k>>
            \o Ascending(S \ {CHOOSE m \in S : \A k \in S : m <= k})

Candidates(b, from) == Ascending({i \in from..(Len(b) - 1) : b[i + 1] = START_DELIMITER})

\* buf[lo..hi] with 0-based offsets, hi excluded
Slice(b, lo, hi) == SubSeq(b, lo + 1, hi)

\* the for loop over the candidates, from candidate number i on.  st holds
\* parsed_upto, the packets sent down packet_tx so far and how the loop went:
\* "ok", "panic" (a slice with its start past its end, or a panic in the
\* conversion) or "send_failed" (packet_tx.send returned an error)
RECURSIVE ScanFrom(_, _, _, _, _)
RECURSIVE ScanCandidate(_, _, _, _, _, _)
ScanFrom(b, cands, i, st, alive) ==
    IF i > Len(cands) \/ st.outcome # "ok" THEN st
    ELSE ScanCandidate(b, cands, i, st, alive, ReceivedPacketFrom(Slice(b, cands[i], Len(b))))

\* the body of the for loop for candidate number i, whose bytes convert to
\* received
ScanCandidate(b, cands, i, st, alive, received) ==
    LET start == cands[i]
    IN IF received.kind = "Panic"
       THEN [st EXCEPT !.outcome = "panic"]
       ELSE IF received.kind = "Invalid"
       THEN ScanFrom(b, cands, i + 1, st, alive)
       ELSE IF start # st.parsed_upto /\ st.parsed_upto > start
       THEN [st EXCEPT !.outcome = "panic"]
       ELSE LET gap == IF start # st.parsed_upto /\ alive
                       THEN <<Invalid(Slice(b, st.parsed_upto, start))>>
                       ELSE <<>>
                packet_len == Len(received.packet.data) + PACKET_OVERHEAD
            IN IF ~alive
               THEN [st EXCEPT !.outcome = "send_failed"]
               ELSE ScanFrom(b, cands, i + 1,
                             [parsed_upto |-> start + packet_len,
                              sent |-> st.sent \o gap \o <<received>>,
                              outcome |-> "ok"],
                             alive)

\* rposition of the start byte in the last 256 bytes of the full buffer: the
\* offset inside that window, or -1 for None
RPosition(w, i) ==
    IF \A k \in 1..i : w[k] # START_DELIMITER THEN -1
    ELSE (CHOOSE m \in 1..i : w[m] = START_DELIMITER
                                /\ \A k \in (m + 1)..i : w[k] # START_DELIMITER) - 1

\* parsed_upto after the check for a full buffer
FastForward(b, parsed_upto) ==
    IF Len(b) = BUFSIZ
    THEN LET back_pos == RPosition(Slice(b, BUFSIZ - TAIL_WINDOW, BUFSIZ), TAIL_WINDOW)
         IN IF back_pos >= 0 THEN back_pos ELSE Len(b)
    ELSE parsed_upto

\* after the candidates loop has ended in st: the full buffer check and the
\* move of the unparsed data to the front (copy_within panics on a range whose
\* start is past its end)
Compact(b, st) ==
    LET upto == FastForward(b, st.parsed_upto)
    IN IF st.outcome # "ok" THEN [outcome |-> st.outcome, sent |-> st.sent, buf |-> b]
       ELSE IF upto > Len(b) THEN [outcome |-> "panic", sent |-> st.sent, buf |-> b]
       ELSE [outcome |-> "ok", sent |-> st.sent, buf |-> Slice(b, upto, Len(b))]

\* one pass over the buffer: the candidates loop, then the full buffer check
\* and the move
ScanPass(b, alive) ==
    Compact(b, ScanFrom(b, Candidates(b, 0), 1,
                        [parsed_upto |-> 0, sent |-> <<>>, outcome |-> "ok"], alive))

\* ---- the thread, step by step

MaxNoise == 1
MaxGeneration == 3

NoiseBytes == {0, 126}
Noise == SeqsUpTo(NoiseBytes, MaxNoise)

\* packets the radio sends: a delivery status, a received packet, a packet of
\* another type, a received packet too short for its type, a packet whose
\* data holds the bytes of a complete packet, and a delivery status without
\* data
RdStatus == XbeePacket(TX_STATUS_TYPE, 1, <<SUCCESS>>)
RdReceived == XbeePacket(RX_PACKET_TYPE, 0, <<0, 1, 40, 0>>)
RdOther == XbeePacket(1, 1, <<>>)
RdShort == XbeePacket(RX_PACKET_TYPE, 0, <<>>)
RdNested == XbeePacket(1, 0, serialise(XbeePacket(RX_PACKET_TYPE, 0, <<>>)))
RdStatusEmpty == XbeePacket(TX_STATUS_TYPE, 1, <<>>)

FirstFrames ==
    {serialise(p) : p \in {RdStatus, RdReceived, RdOther, RdShort, RdNested, RdStatusEmpty}}
LaterFrames == {serialise(p) : p \in {RdStatus, RdOther}}

NoParts == [k |-> <<>>, f1 |-> <<>>, f2 |-> <<>>, m |-> <<>>, f3 |-> <<>>]

StreamParts ==
    [k : Noise, f1 : FirstFrames, f2 : LaterFrames, m : Noise, f3 : LaterFrames]

StreamOf(parts) == parts.k \o parts.f1 \o parts.f2 \o parts.m \o parts.f3

\* the state once open_radio_connection has started the thread
ReaderInit ==
    /\ stream_parts \in StreamParts
    /\ stream = StreamOf(stream_parts)
    /\ rd_pos = 0
    /\ buf = <<>>
    /\ write_idx = 0
    /\ rt_pc = "check"
    /\ rt_exit = "none"
    /\ packet_chan = <<>>
    /\ CURR_RADIO = radio_num
    /\ rx_alive = TRUE

\* the packets the final flush sends: what is left in the buffer
Flush(b, alive) == IF Len(b) # 0 /\ alive THEN <<Invalid(b)>> ELSE <<>>

\* while radio_num == CURR_RADIO.load(ORDER): enter the loop body, or leave
\* the loop and send what is left in the buffer
RT_Check ==
    /\ rt_pc = "check"
    /\ IF radio_num = CURR_RADIO
       THEN /\ rt_pc' = "read"
            /\ UNCHANGED <<rt_exit, packet_chan>>
       ELSE /\ rt_pc' = "done"
            /\ rt_exit' = "superseded"
            /\ packet_chan' = packet_chan \o Flush(buf, rx_alive)
    /\ UNCHANGED <<stream, stream_parts, rd_pos, buf, write_idx, CURR_RADIO, rx_alive>>
    /\ UNCHANGED <<fn_vars, cx_vars, ack_vars, ledger_vars, gen_vars, sim_vars>>

\* the read under the lock returned Ok(n): n bytes of the stream are in the
\* buffer behind write_idx
RT_ReadOk ==
    /\ rt_pc = "read"
    /\ \E n \in 0..(Len(stream) - rd_pos) :
        /\ write_idx + n <= BUFSIZ
        /\ buf' = buf \o SubSeq(stream, rd_pos + 1, rd_pos + n)
        /\ write_idx' = write_idx + n
        /\ rd_pos' = rd_pos + n
    /\ rt_pc' = "scan"
    /\ UNCHANGED <<stream, stream_parts, rt_exit, packet_chan, CURR_RADIO, rx_alive>>
    /\ UNCHANGED <<fn_vars, cx_vars, ack_vars, ledger_vars, gen_vars, sim_vars>>

\* the read returned ErrorKind::TimedOut: continue
RT_ReadTimedOut ==
    /\ rt_pc = "read"
    /\ rt_pc' = "check"
    /\ UNCHANGED <<stream, stream_parts, rd_pos, buf, write_idx, rt_exit, packet_chan,
                   CURR_RADIO, rx_alive>>
    /\ UNCHANGED <<fn_vars, cx_vars, ack_vars, ledger_vars, gen_vars, sim_vars>>

ReadErrors == {"BrokenPipe", "Other"}

\* the read returned ErrorKind::BrokenPipe or another error: return
RT_ReadFailed ==
    /\ rt_pc = "read"
    /\ \E e \in ReadErrors : rt_exit' = e
    /\ rt_pc' = "done"
    /\ UNCHANGED <<stream, stream_parts, rd_pos, buf, write_idx, packet_chan,
                   CURR_RADIO, rx_alive>>
    /\ UNCHANGED <<fn_vars, cx_vars, ack_vars, ledger_vars, gen_vars, sim_vars>>

\* the rest of the loop body: the candidates, the full buffer check, the move
RT_Scan ==
    /\ rt_pc = "scan"
    /\ \E pass \in {ScanPass(buf, rx_alive)} :
          /\ packet_chan' = packet_chan \o pass.sent
          /\ buf' = pass.buf
          /\ write_idx' = Len(pass.buf)
          /\ rt_pc' = CASE pass.outcome = "ok" -> "check"
                        [] pass.outcome = "panic" -> "panicked"
                        [] OTHER -> "done"
          /\ rt_exit' = CASE pass.outcome = "ok" -> rt_exit
                          [] pass.outcome = "panic" -> "panic"
                          [] OTHER -> "send_failed"
    /\ UNCHANGED <<stream, stream_parts, rd_pos, CURR_RADIO, rx_alive>>
    /\ UNCHANGED <<fn_vars, cx_vars, ack_vars, ledger_vars, gen_vars, sim_vars>>

\* close_radio, seen from the thread: the generation moves on
RT_CloseRadio ==
    /\ CURR_RADIO = radio_num
    /\ CURR_RADIO' = CURR_RADIO + 1
    /\ UNCHANGED <<stream, stream_parts, rd_pos, buf, write_idx, rt_pc, rt_exit,
                   packet_chan, rx_alive>>
    /\ UNCHANGED <<fn_vars, cx_vars, ack_vars, ledger_vars, gen_vars, sim_vars>>

\* open_radio_connection for a new connection, seen from the thread: the
\* generation moves on and packet_rx is replaced, which drops the receiver
RT_OpenRadio ==
    /\ CURR_RADIO < MaxGeneration
    /\ CURR_RADIO' = CURR_RADIO + 1
    /\ rx_alive' = FALSE
    /\ UNCHANGED <<stream, stream_parts, rd_pos, buf, write_idx, rt_pc, rt_exit, packet_chan>>
    /\ UNCHANGED <<fn_vars, cx_vars, ack_vars, ledger_vars, gen_vars, sim_vars>>

----------------------------------------------------------------------------
(* The command ledger (src/src/app/mod.rs)                                  *)

BROADCAST_ADDR == 65535
RATE_LIMIT_MS == 100
TX_REQUEST_TYPE == 1

\* enum CommandStatus
Unsent == [tag |-> "Unsent", frame_id |-> 0, status |-> 0]
Sent(frame_id) == [tag |-> "Sent", frame_id |-> frame_id, status |-> 0]
SentStatus(status) == [tag |-> "SentStatus", frame_id |-> 0, status |-> status]

\* a value of the map: the command text and its status.  sub is the number
\* of the send on cmd_sender that brought the command, kept for the record.
Entry(cmd, status, sub) == [cmd |-> cmd, status |-> status, sub |-> sub]

MaxKey(S) == CHOOSE k \in S : \A j \in S : j <= k
MinKey(S) == CHOOSE k \in S : \A j \in S : k <= j

\* the keys of the entries waiting for the status of frame frame_id
SentWith(ch, frame_id) == {k \in DOMAIN ch : ch[k].status = Sent(frame_id)}

\* recv_ack with the entries visited oldest first
recv_ack_forward(ch, tx_status) ==
    IF tx_status.status = SUCCESS /\ SentWith(ch, tx_status.frame_id) # {}
    THEN [ch EXCEPT ![MinKey(SentWith(ch, tx_status.frame_id))].status =
                        SentStatus(tx_status.status)]
    ELSE ch

\* recv_ack: on Success the entries are visited newest first, the first one
\* that is Sent with the frame id of the status becomes SentStatus
recv_ack(ch, tx_status) ==
    IF tx_status.status = SUCCESS /\ SentWith(ch, tx_status.frame_id) # {}
    THEN [ch EXCEPT ![MaxKey(SentWith(ch, tx_status.frame_id))].status =
                        SentStatus(tx_status.status)]
    ELSE ch

\* BTreeMap::insert: the value under an existing key is replaced
Insert(ch, key, value) ==
    [k \in DOMAIN ch \cup {key} |-> IF k = key THEN value ELSE ch[k]]

\* AtomicU8::fetch_add(1): the value before, the counter wraps at 256
FetchAdd(counter) == [frame_id |-> counter, counter |-> (counter + 1) % 256]

\* while frame_id == 0 { frame_id = FRAME_ID_COUNTER.fetch_add(1) }
RECURSIVE SkipZero(_)
SkipZero(a) == IF a.frame_id = 0 THEN SkipZero(FetchAdd(a.counter)) ELSE a

\* a frame id taken from the counter as it comes
AllocFrameId_noskip(counter) == FetchAdd(counter)

\* the frame id of a request: FRAME_ID_COUNTER.fetch_add(1), again while the
\* value fetched is 0
AllocFrameId(counter) == SkipZero(FetchAdd(counter))

\* XbeePacket::new takes frame_type, frame_id: Option<u8> and data, the
\* conversion of a TxRequest calls it as XbeePacket::new(0x01, buf): the
\* frame id it is called with is None (0 in the packet) or the request's
\* frame id
FrameIdArgs(frame_id) == {0, frame_id}

\* a TxRequest whose buffer carries the frame id 0 instead of the request's
TxRequestPacket_unstamped(id_arg, frame_id, dst, data) ==
    XbeePacket(TX_REQUEST_TYPE, id_arg, <<0>> \o U16BE(dst) \o <<0>> \o data)

\* TxRequest::new(frame_id, dst, data) as an XbeePacket: the buffer holds the
\* request's frame id, the destination, the options byte and the data, and
\* becomes the data of a packet of type 0x01 with the frame id id_arg
TxRequestPacket(id_arg, frame_id, dst, data) ==
    XbeePacket(TX_REQUEST_TYPE, id_arg, <<frame_id>> \o U16BE(dst) \o <<0>> \o data)

\* the next Unsent entry of the for loop after the entry at cursor, or -1
NextUnsent(ch, cursor) ==
    LET S == {k \in DOMAIN ch : k > cursor /\ ch[k].status = Unsent}
    IN IF S = {} THEN -1 ELSE MinKey(S)

\* a mutex that lets everyone in
FairMutexFree_always(holders) == TRUE

\* FairMutex: lock() returns and try_lock() returns Some only while no guard
\* is alive
FairMutexFree(holders) == holders = {}

\* a handle_commands that never holds a command back
RateLimited_never(t, last_sent) == FALSE

\* Instant::now().duration_since(self.radio_last_sent) < Duration::from_millis(100)
RateLimited(t, last_sent) == t - last_sent < RATE_LIMIT_MS

\* ---- the GUI thread, the clocks and the lock, step by step

MaxCmds == 2
MaxAllocs == 3
MaxTicks == 4
MaxUtc == 1

Commands == {<<67>>, <<68>>}
StatusInputs == [frame_id : 1..2, status : {SUCCESS, 1}]

LedgerInit ==
    /\ command_history = <<>>
    /\ cmd_receiver = <<>>
    /\ radio = "none"
    /\ radio_last_sent = 0
    /\ FRAME_ID_COUNTER = 1
    /\ radio_lock = {}
    /\ now = 0
    /\ utc = 0
    /\ hc_pc = "idle"
    /\ hc_cursor = -1
    /\ hc_frame_id = 0
    /\ transport_out = <<>>
    /\ written = <<>>
    /\ opened_at = -1
    /\ nsub = 0
    /\ nalloc = 0

\* cmd_sender.send(cmd): the command panel or the simulation thread
SendCommand ==
    /\ nsub < MaxCmds
    /\ \E cmd \in Commands :
        cmd_receiver' = Append(cmd_receiver, [cmd |-> cmd, sub |-> nsub + 1])
    /\ nsub' = nsub + 1
    /\ UNCHANGED <<command_history, radio, radio_last_sent, FRAME_ID_COUNTER, radio_lock,
                   now, utc, hc_pc, hc_cursor, hc_frame_id, transport_out, written, nalloc>>
    /\ UNCHANGED opened_at
    /\ UNCHANGED <<fn_vars, cx_vars, ack_vars, reader_vars, gen_vars, sim_vars>>

\* the Resend button of the commands view: cmd_sender.send(cmd.clone())
Resend ==
    /\ hc_pc = "idle"
    /\ nsub < MaxCmds
    /\ \E k \in DOMAIN command_history :
        cmd_receiver' = Append(cmd_receiver, [cmd |-> command_history[k].cmd, sub |-> nsub + 1])
    /\ nsub' = nsub + 1
    /\ UNCHANGED <<command_history, radio, radio_last_sent, FRAME_ID_COUNTER, radio_lock,
                   now, utc, hc_pc, hc_cursor, hc_frame_id, transport_out, written, nalloc>>
    /\ UNCHANGED opened_at
    /\ UNCHANGED <<fn_vars, cx_vars, ack_vars, reader_vars, gen_vars, sim_vars>>

\* handle_commands, one turn of `while let Ok(cmd) = self.cmd_receiver.try_recv()`:
\* the command is inserted under Utc::now() as Unsent
HC_Recv ==
    /\ hc_pc \in {"idle", "drain"}
    /\ cmd_receiver # <<>>
    /\ command_history' = Insert(command_history, utc,
                                 Entry(Head(cmd_receiver).cmd, Unsent, Head(cmd_receiver).sub))
    /\ cmd_receiver' = Tail(cmd_receiver)
    /\ hc_pc' = "drain"
    /\ UNCHANGED <<radio, radio_last_sent, FRAME_ID_COUNTER, radio_lock, now, utc,
                   hc_cursor, hc_frame_id, transport_out, written, nsub, nalloc>>
    /\ UNCHANGED opened_at
    /\ UNCHANGED <<fn_vars, cx_vars, ack_vars, reader_vars, gen_vars, sim_vars>>

\* handle_commands, the channel is empty: return when there is no radio,
\* else start the for loop over the ledger
HC_RecvDone ==
    /\ hc_pc \in {"idle", "drain"}
    /\ cmd_receiver = <<>>
    /\ hc_pc' = IF radio = "none" THEN "idle" ELSE "loop"
    /\ hc_cursor' = -1
    /\ UNCHANGED <<command_history, cmd_receiver, radio, radio_last_sent, FRAME_ID_COUNTER,
                   radio_lock, now, utc, hc_frame_id, transport_out, written, nsub, nalloc>>
    /\ UNCHANGED opened_at
    /\ UNCHANGED <<fn_vars, cx_vars, ack_vars, reader_vars, gen_vars, sim_vars>>

\* handle_commands, the for loop moves to the next Unsent entry, allocates a
\* frame id for it and tries the lock: `continue` when the lock is taken.
\* The loop ends when no Unsent entry is left.
HC_Next ==
    /\ hc_pc = "loop"
    /\ LET k == NextUnsent(command_history, hc_cursor)
           a == AllocFrameId(FRAME_ID_COUNTER)
       IN IF k = -1
          THEN /\ hc_pc' = "idle"
               /\ UNCHANGED <<hc_cursor, hc_frame_id, FRAME_ID_COUNTER, radio_lock, nalloc>>
          ELSE /\ nalloc < MaxAllocs
               /\ hc_cursor' = k
               /\ hc_frame_id' = a.frame_id
               /\ FRAME_ID_COUNTER' = a.counter
               /\ nalloc' = nalloc + 1
               /\ IF FairMutexFree(radio_lock)
                  THEN radio_lock' = radio_lock \cup {"sender"} /\ hc_pc' = "locked"
                  ELSE radio_lock' = radio_lock /\ hc_pc' = "loop"
    /\ UNCHANGED <<command_history, cmd_receiver, radio, radio_last_sent, now, utc,
                   transport_out, written, nsub>>
    /\ UNCHANGED opened_at
    /\ UNCHANGED <<fn_vars, cx_vars, ack_vars, reader_vars, gen_vars, sim_vars>>

\* handle_commands, under the lock: less than 100 ms since the last send, break
HC_RateLimited ==
    /\ hc_pc = "locked"
    /\ RateLimited(now, radio_last_sent)
    /\ radio_lock' = radio_lock \ {"sender"}
    /\ hc_pc' = "idle"
    /\ UNCHANGED <<command_history, cmd_receiver, radio, radio_last_sent, FRAME_ID_COUNTER,
                   now, utc, hc_cursor, hc_frame_id, transport_out, written, nsub, nalloc>>
    /\ UNCHANGED opened_at
    /\ UNCHANGED <<fn_vars, cx_vars, ack_vars, reader_vars, gen_vars, sim_vars>>

\* handle_commands, under the lock: radio.write(&data) returned an error, the
\* error is logged and the loop goes on with the next entry
HC_WriteFailed ==
    /\ hc_pc = "locked"
    /\ ~RateLimited(now, radio_last_sent)
    /\ radio_lock' = radio_lock \ {"sender"}
    /\ hc_pc' = "loop"
    /\ UNCHANGED <<command_history, cmd_receiver, radio, radio_last_sent, FRAME_ID_COUNTER,
                   now, utc, hc_cursor, hc_frame_id, transport_out, written, nsub, nalloc>>
    /\ UNCHANGED opened_at
    /\ UNCHANGED <<fn_vars, cx_vars, ack_vars, reader_vars, gen_vars, sim_vars>>

\* handle_commands, under the lock: radio.write(&data) succeeded, the entry
\* becomes Sent with the frame id of the request, break
HC_WriteOk ==
    /\ hc_pc = "locked"
    /\ ~RateLimited(now, radio_last_sent)
    /\ \E id_arg \in FrameIdArgs(hc_frame_id) :
        transport_out' = Append(transport_out,
            serialise(TxRequestPacket(id_arg, hc_frame_id, BROADCAST_ADDR,
                                      command_history[hc_cursor].cmd)))
    /\ written' = Append(written, [sub |-> command_history[hc_cursor].sub, at |-> now])
    /\ command_history' = [command_history EXCEPT ![hc_cursor].status = Sent(hc_frame_id)]
    /\ radio_last_sent' = now
    /\ radio_lock' = radio_lock \ {"sender"}
    /\ hc_pc' = "idle"
    /\ UNCHANGED <<cmd_receiver, radio, FRAME_ID_COUNTER, now, utc, hc_cursor, hc_frame_id,
                   nsub, nalloc>>
    /\ UNCHANGED opened_at
    /\ UNCHANGED <<fn_vars, cx_vars, ack_vars, reader_vars, gen_vars, sim_vars>>

\* recv_telem takes a Status packet from the channel: recv_ack
RecvStatus ==
    /\ hc_pc = "idle"
    /\ \E tx_status \in StatusInputs :
        command_history' = recv_ack(command_history, tx_status)
    /\ UNCHANGED <<cmd_receiver, radio, radio_last_sent, FRAME_ID_COUNTER, radio_lock, now,
                   utc, hc_pc, hc_cursor, hc_frame_id, transport_out, written, nsub, nalloc>>
    /\ UNCHANGED opened_at
    /\ UNCHANGED <<fn_vars, cx_vars, ack_vars, reader_vars, gen_vars, sim_vars>>

\* open_radio_connection: a new port behind a new mutex
OpenRadio ==
    /\ hc_pc = "idle"
    /\ radio = "none"
    /\ radio' = "open"
    /\ radio_lock' = {}
    /\ radio_last_sent' = now
    /\ opened_at' = now
    /\ UNCHANGED <<command_history, cmd_receiver, FRAME_ID_COUNTER, now, utc, hc_pc,
                   hc_cursor, hc_frame_id, transport_out, written, nsub, nalloc>>
    /\ UNCHANGED <<fn_vars, cx_vars, ack_vars, reader_vars, gen_vars, sim_vars>>

\* close_radio
CloseRadio ==
    /\ hc_pc = "idle"
    /\ radio = "open"
    /\ radio' = "none"
    /\ radio_lock' = {}
    /\ UNCHANGED <<command_history, cmd_receiver, radio_last_sent, FRAME_ID_COUNTER, now,
                   utc, hc_pc, hc_cursor, hc_frame_id, transport_out, written, nsub, nalloc>>
    /\ UNCHANGED opened_at
    /\ UNCHANGED <<fn_vars, cx_vars, ack_vars, reader_vars, gen_vars, sim_vars>>

\* radio_thread takes the lock for its read
ReaderLock ==
    /\ radio = "open"
    /\ FairMutexFree(radio_lock)
    /\ radio_lock' = radio_lock \cup {"reader"}
    /\ UNCHANGED <<command_history, cmd_receiver, radio, radio_last_sent, FRAME_ID_COUNTER,
                   now, utc, hc_pc, hc_cursor, hc_frame_id, transport_out, written, nsub, nalloc>>
    /\ UNCHANGED opened_at
    /\ UNCHANGED <<fn_vars, cx_vars, ack_vars, reader_vars, gen_vars, sim_vars>>

\* radio_thread drops the guard after the read
ReaderUnlock ==
    /\ "reader" \in radio_lock
    /\ radio_lock' = radio_lock \ {"reader"}
    /\ UNCHANGED <<command_history, cmd_receiver, radio, radio_last_sent, FRAME_ID_COUNTER,
                   now, utc, hc_pc, hc_cursor, hc_frame_id, transport_out, written, nsub, nalloc>>
    /\ UNCHANGED opened_at
    /\ UNCHANGED <<fn_vars, cx_vars, ack_vars, reader_vars, gen_vars, sim_vars>>

\* the monotonic clock behind Instant::now() moves on
Tick ==
    /\ now < MaxTicks * (RATE_LIMIT_MS \div 2)
    /\ now' = now + RATE_LIMIT_MS \div 2
    /\ UNCHANGED <<command_history, cmd_receiver, radio, radio_last_sent, FRAME_ID_COUNTER,
                   radio_lock, utc, hc_pc, hc_cursor, hc_frame_id, transport_out, written,
                   nsub, nalloc>>
    /\ UNCHANGED opened_at
    /\ UNCHANGED <<fn_vars, cx_vars, ack_vars, reader_vars, gen_vars, sim_vars>>

\* the wall clock behind Utc::now() shows a later time
UtcTick ==
    /\ utc < MaxUtc
    /\ utc' = utc + 1
    /\ UNCHANGED <<command_history, cmd_receiver, radio, radio_last_sent, FRAME_ID_COUNTER,
                   radio_lock, now, hc_pc, hc_cursor, hc_frame_id, transport_out, written,
                   nsub, nalloc>>
    /\ UNCHANGED opened_at
    /\ UNCHANGED <<fn_vars, cx_vars, ack_vars, reader_vars, gen_vars, sim_vars>>

\* ---- recv_ack on its own: a ledger and a status

MaxAckCmds == 3

AckStatuses == {Unsent, Sent(1), Sent(2), SentStatus(SUCCESS)}

\* ledgers of commands submitted at times 1, 2, ..
AckLedgers ==
    UNION {{[k \in 1..n |-> Entry(<<67>>, st[k], k)] : st \in [1..n -> AckStatuses]}
           : n \in 0..MaxAckCmds}

AckInit ==
    /\ ack_pc = "init"
    /\ ack_in = [frame_id |-> 0, status |-> SUCCESS]
    /\ ack_prev = <<>>
    /\ command_history \in AckLedgers
    /\ cmd_receiver = <<>>
    /\ radio = "open"
    /\ radio_last_sent = 0
    /\ FRAME_ID_COUNTER = 1
    /\ radio_lock = {}
    /\ now = 0
    /\ utc = 0
    /\ hc_pc = "idle"
    /\ hc_cursor = -1
    /\ hc_frame_id = 0
    /\ transport_out = <<>>
    /\ written = <<>>
    /\ opened_at = -1
    /\ nsub = 0
    /\ nalloc = 0

\* recv_ack(tx_status) on the ledger
AckApply ==
    /\ ack_pc = "init"
    /\ \E tx_status \in StatusInputs :
        /\ ack_in' = tx_status
        /\ command_history' = recv_ack(command_history, tx_status)
    /\ ack_prev' = command_history
    /\ ack_pc' = "applied"
    /\ UNCHANGED <<cmd_receiver, radio, radio_last_sent, FRAME_ID_COUNTER, radio_lock, now,
                   utc, hc_pc, hc_cursor, hc_frame_id, transport_out, written, nsub, nalloc>>
    /\ UNCHANGED opened_at
    /\ UNCHANGED <<fn_vars, cx_vars, reader_vars, gen_vars, sim_vars>>

----------------------------------------------------------------------------
(* Codec harness                                                            *)

MaxDataLen == 2

CxTypes == {1, 49, 129, 137}
CxIds == {0, 1, 126, 190}
CxBytes == {0, 126, 255}
\* data lengths around the ones whose length field is 0x0011 and 0x007D
CxLongLens == {15, 122, 123, 124}
CxFill == {0, 49}

\* the telemetry record of the tests of the telemetry module
TELEMETRY_SAMPLE ==
    <<49, 48, 52, 55, 44, 49, 53, 58, 49, 50, 58, 48, 50, 46, 57, 57, 44, 49, 50, 51,
       44, 70, 44, 89, 69, 69, 84, 69, 68, 44, 51, 53, 54, 46, 50, 44, 80, 44, 67, 44,
       78, 44, 51, 55, 46, 56, 44, 53, 46, 49, 44, 49, 53, 58, 49, 50, 58, 48, 51, 44,
       49, 54, 50, 51, 46, 51, 44, 51, 55, 46, 50, 50, 52, 57, 44, 45, 56, 48, 46, 52,
       50, 52, 57, 44, 49, 52, 44, 50, 46, 51, 54, 44, 45, 53, 46, 52, 57, 44, 67, 88,
       79, 78>>

\* source address, rssi and options in front of the data of a receive frame
RxHeader == <<0, 1, 40, 0>>

\* the sample, the sample without its last field, the sample followed by a
\* byte that is not UTF-8
CxTexts ==
    {TELEMETRY_SAMPLE,
     SubSeq(TELEMETRY_SAMPLE, 1, Len(TELEMETRY_SAMPLE) - 5),
     Append(TELEMETRY_SAMPLE, 255)}

CxData ==
    SeqsUpTo(CxBytes, MaxDataLen)
        \cup {Fill(n, b) : n \in CxLongLens, b \in CxFill}
        \cup {RxHeader \o t : t \in CxTexts}

CxPackets == {XbeePacket(ft, fid, d) : ft \in CxTypes, fid \in CxIds, d \in CxData}

\* no conversion to an RxPacket was made
NoRxPacket == [ok |-> FALSE, err |-> "none", src_addr |-> 0, rssi |-> 0, options |-> 0, data |-> <<>>]

\* struct TxRequest
TxRequest(frame_id, dst, data) == [frame_id |-> frame_id, dst |-> dst, data |-> data]
NoRequest == [frame_id |-> 0, dst |-> 0, data |-> <<>>, none |-> TRUE]

\* the command of the serialisation test of the transmit request
CAL_TEXT == <<67, 77, 68, 44, 49, 48, 52, 55, 44, 83, 84, 44, 71, 80, 83>>

CxRequests ==
    {TxRequest(f, d, t) : f \in {1, 126}, d \in {1, BROADCAST_ADDR}, t \in {<<>>, CAL_TEXT}}

CxIdle ==
    /\ cx_pc = "off"
    /\ cx_pkt = XbeePacket(0, 0, <<>>)
    /\ cx_wire = <<>>
    /\ cx_dec = DecodeErr("none")
    /\ cx_recv = Invalid(<<>>)
    /\ cx_rx = NoRxPacket
    /\ cx_req = NoRequest
    /\ cx_damage = "none"

\* a packet to encode, or a transmit request to make a packet of
CxInit ==
    /\ \/ cx_pc = "init" /\ cx_pkt \in CxPackets /\ cx_req = NoRequest
       \/ cx_pc = "request" /\ cx_pkt = XbeePacket(0, 0, <<>>) /\ cx_req \in CxRequests
    /\ cx_wire = <<>>
    /\ cx_dec = DecodeErr("none")
    /\ cx_recv = Invalid(<<>>)
    /\ cx_rx = NoRxPacket
    /\ cx_damage = "none"

\* XbeePacket::try_from(req)
CxFromRequest ==
    /\ cx_pc = "request"
    /\ \E id_arg \in FrameIdArgs(cx_req.frame_id) :
        cx_pkt' = TxRequestPacket(id_arg, cx_req.frame_id, cx_req.dst, cx_req.data)
    /\ cx_pc' = "init"
    /\ UNCHANGED <<cx_req, cx_rx, cx_wire, cx_dec, cx_recv, cx_damage>>
    /\ UNCHANGED <<fn_vars, ack_vars, ledger_vars, reader_vars, gen_vars, sim_vars>>

CxEncode ==
    /\ cx_pc = "init"
    /\ cx_wire' = serialise(cx_pkt)
    /\ cx_pc' = "encoded"
    /\ UNCHANGED <<cx_req, cx_rx, cx_pkt, cx_dec, cx_recv, cx_damage>>
    /\ UNCHANGED <<fn_vars, ack_vars, ledger_vars, reader_vars, gen_vars, sim_vars>>

\* first bytes other than the start delimiter
CxStartBytes == {0, 125, 127, 255}
\* what is added to a checksum byte to make it another byte
CxChecksumOffsets == {1, 128, 255}

\* bit k of byte b inverted
FlipBit(b, k) == IF (b \div 2^k) % 2 = 1 THEN b - 2^k ELSE b + 2^k

\* the bytes reach the decoder with another first byte
CxDamageStart ==
    /\ cx_pc = "encoded"
    /\ \E b \in CxStartBytes : cx_wire' = [cx_wire EXCEPT ![1] = b]
    /\ cx_damage' = "start"
    /\ cx_pc' = "damaged"
    /\ UNCHANGED <<cx_req, cx_rx, cx_pkt, cx_dec, cx_recv>>
    /\ UNCHANGED <<fn_vars, ack_vars, ledger_vars, reader_vars, gen_vars, sim_vars>>

\* only the first n bytes reach the decoder
CxDamageTruncate ==
    /\ cx_pc = "encoded"
    /\ \E n \in 0..(Len(cx_wire) - 1) : cx_wire' = SubSeq(cx_wire, 1, n)
    /\ cx_damage' = "truncated"
    /\ cx_pc' = "damaged"
    /\ UNCHANGED <<cx_req, cx_rx, cx_pkt, cx_dec, cx_recv>>
    /\ UNCHANGED <<fn_vars, ack_vars, ledger_vars, reader_vars, gen_vars, sim_vars>>

\* the last byte, the checksum, reaches the decoder as another byte
CxDamageChecksum ==
    /\ cx_pc = "encoded"
    /\ \E d \in CxChecksumOffsets :
        cx_wire' = [cx_wire EXCEPT ![Len(cx_wire)] = WAdd(cx_wire[Len(cx_wire)], d)]
    /\ cx_damage' = "checksum"
    /\ cx_pc' = "damaged"
    /\ UNCHANGED <<cx_req, cx_rx, cx_pkt, cx_dec, cx_recv>>
    /\ UNCHANGED <<fn_vars, ack_vars, ledger_vars, reader_vars, gen_vars, sim_vars>>

\* one bit of the frame type byte, of the frame id byte or of a data byte is
\* inverted, the checksum is as serialise wrote it
CxDamageFlip ==
    /\ cx_pc = "encoded"
    /\ \E i \in 4..(Len(cx_wire) - 1), k \in 0..7 :
        /\ cx_wire' = [cx_wire EXCEPT ![i] = FlipBit(cx_wire[i], k)]
        /\ cx_damage' = IF i = 4 THEN "flip_type" ELSE IF i = 5 THEN "flip_id" ELSE "flip_data"
    /\ cx_pc' = "damaged"
    /\ UNCHANGED <<cx_req, cx_rx, cx_pkt, cx_dec, cx_recv>>
    /\ UNCHANGED <<fn_vars, ack_vars, ledger_vars, reader_vars, gen_vars, sim_vars>>

CxDecode ==
    /\ cx_pc \in {"encoded", "damaged"}
    /\ cx_dec' = decode(cx_wire)
    /\ cx_pc' = "decoded"
    /\ UNCHANGED <<cx_req, cx_rx, cx_pkt, cx_wire, cx_recv, cx_damage>>
    /\ UNCHANGED <<fn_vars, ack_vars, ledger_vars, reader_vars, gen_vars, sim_vars>>

----------------------------------------------------------------------------
(* Parts of the state a specification does not exercise stay as they are    *)
(* before the corresponding object exists.                                  *)

AckIdle ==
    /\ ack_pc = "off"
    /\ ack_in = [frame_id |-> 0, status |-> SUCCESS]
    /\ ack_prev = <<>>

LedgerIdle ==
    /\ command_history = <<>>
    /\ cmd_receiver = <<>>
    /\ radio = "none"
    /\ radio_last_sent = 0
    /\ FRAME_ID_COUNTER = 1
    /\ radio_lock = {}
    /\ now = 0
    /\ utc = 0
    /\ hc_pc = "off"
    /\ hc_cursor = -1
    /\ hc_frame_id = 0
    /\ transport_out = <<>>
    /\ written = <<>>
    /\ opened_at = -1
    /\ nsub = 0
    /\ nalloc = 0

ReaderIdle ==
    /\ stream = <<>>
    /\ stream_parts = NoParts
    /\ rd_pos = 0
    /\ buf = <<>>
    /\ write_idx = 0
    /\ rt_pc = "off"
    /\ rt_exit = "none"
    /\ packet_chan = <<>>
    /\ CURR_RADIO = 0
    /\ rx_alive = FALSE

----------------------------------------------------------------------------
(* Specification of the codec: a packet is serialised, the bytes decoded    *)

\* no radio thread has been started
GenIdle == radio_threads = <<>>

FnIdle ==
    /\ fn_pc = "off"
    /\ fn_in = <<>>
    /\ fn_out = <<>>

\* Option::None of simp_values and simp_graph_values
NO_SIMPS == -1

SimIdle ==
    /\ SEND_THREAD_STARTED = FALSE
    /\ SEND_THREAD_PAUSED = FALSE
    /\ SEND_THREAD_CANCEL = FALSE
    /\ SENT_SIMPS = 0
    /\ simp_values = NO_SIMPS
    /\ simp_graph_values = NO_SIMPS
    /\ simp_threads = <<>>
    /\ gui_pc = "running"

InitCodec == CxInit /\ AckIdle /\ LedgerIdle /\ ReaderIdle /\ GenIdle /\ FnIdle /\ SimIdle

\* ReceivedPacket::from(cx_wire): the bytes are decoded and the decoded
\* packet is classified
CxClassify ==
    /\ cx_pc \in {"encoded", "damaged"}
    /\ \E dec \in {decode(cx_wire)} :
        /\ cx_dec' = dec
        /\ cx_recv' = ReceivedPacketOf(cx_wire, dec)
    /\ cx_pc' = "classified"
    /\ UNCHANGED <<cx_req, cx_rx, cx_pkt, cx_wire, cx_damage>>
    /\ UNCHANGED <<fn_vars, ack_vars, ledger_vars, reader_vars, gen_vars, sim_vars>>

\* RxPacket::try_from on the packet decode returned
CxRxConvert ==
    /\ cx_pc = "decoded"
    /\ cx_dec.ok
    /\ cx_rx' = RxPacketTryFrom(cx_dec.packet)
    /\ cx_pc' = "converted"
    /\ UNCHANGED <<cx_req, cx_pkt, cx_wire, cx_dec, cx_recv, cx_damage>>
    /\ UNCHANGED <<fn_vars, ack_vars, ledger_vars, reader_vars, gen_vars, sim_vars>>

NextCodec ==
    \/ CxFromRequest
    \/ CxEncode
    \/ CxDamageStart
    \/ CxDamageTruncate
    \/ CxDamageChecksum
    \/ CxDamageFlip
    \/ CxDecode
    \/ CxRxConvert
    \/ CxClassify

SpecCodec == InitCodec /\ [][NextCodec]_vars

\* C1: decoding the bytes produced by serialising a packet succeeds and
\* returns the packet that was serialised, for every packet whose length
\* fits the length field, those with length field 0x007D included.
C1_RoundTrip ==
    (cx_pc = "decoded" /\ cx_damage = "none") => (cx_dec.ok /\ cx_dec.packet = cx_pkt)

\* the round trip restricted to packets whose length field is not 0x007D
C1_RoundTripNoQuirk ==
    (cx_pc = "decoded" /\ cx_damage = "none" /\ Len(cx_pkt.data) + 2 # QUIRK_LEN)
        => (cx_dec.ok /\ cx_dec.packet = cx_pkt)

\* a packet with length field 0x007D went through serialise and decode
C1_QuirkLenDecoded ==
    cx_pc = "decoded" /\ cx_damage = "none" /\ Len(cx_pkt.data) + 2 = QUIRK_LEN


\* the slice ends inside the start byte, the length field or the byte the
\* length 0x007D is followed by
HeaderCut(bytes) ==
    \/ Len(bytes) < 3
    \/ bytes[2] * 256 + bytes[3] = QUIRK_LEN /\ Len(bytes) < 4

\* the length 0x007D is followed by a byte other than 0x31
EdgeCaseHeader(bytes) ==
    /\ Len(bytes) >= 4
    /\ bytes[2] * 256 + bytes[3] = QUIRK_LEN
    /\ bytes[4] # QUIRK_NEXT

\* bytes of a frame with this header: the header, frame type and frame id,
\* the data the length asks for, the checksum
FrameDemand(bytes) ==
    DecodeHeaderLen(bytes) + 2 + DecodeDataLen(DecodeLen(bytes)) + 1

\* the byte in the checksum position is 0xFF minus the bytes between the
\* header and it
ChecksumMatches(bytes) ==
    bytes[FrameDemand(bytes)] =
        WSub(255, Sum8(SubSeq(bytes, DecodeHeaderLen(bytes) + 1, FrameDemand(bytes) - 1)))

C16_DecodeRejectsIncomplete ==
    cx_pc = "decoded" =>
        /\ cx_wire = <<>> => (~cx_dec.ok /\ cx_dec.err = "eof")
        /\ (cx_wire # <<>> /\ cx_wire[1] # START_DELIMITER) =>
               (~cx_dec.ok /\ cx_dec.err = "start_byte")
        /\ (cx_wire # <<>> /\ cx_wire[1] = START_DELIMITER /\ HeaderCut(cx_wire)) =>
               (~cx_dec.ok /\ cx_dec.err = "eof")
        /\ (cx_wire # <<>> /\ cx_wire[1] = START_DELIMITER /\ ~HeaderCut(cx_wire)
                /\ ~EdgeCaseHeader(cx_wire)) =>
               /\ Len(cx_wire) < FrameDemand(cx_wire) => (~cx_dec.ok /\ cx_dec.err = "eof")
               /\ (Len(cx_wire) >= FrameDemand(cx_wire) /\ ~ChecksumMatches(cx_wire)) =>
                      (~cx_dec.ok /\ cx_dec.err = "checksum")
        /\ cx_dec.ok =>
               /\ cx_wire # <<>> /\ cx_wire[1] = START_DELIMITER
               /\ ~HeaderCut(cx_wire) /\ ~EdgeCaseHeader(cx_wire)
               /\ Len(cx_wire) >= FrameDemand(cx_wire)
               /\ ChecksumMatches(cx_wire)

\* the first 22 bytes of a frame whose length field is 0x007D and whose type
\* byte is 0x31 are a frame of length 0x11 to decode
C16_CutQuirkFrameAccepted ==
    /\ cx_pc = "decoded"
    /\ cx_damage = "truncated"
    /\ cx_dec.ok


\* C17: a frame that decodes and whose data is too short for its type, a
\* 0x89 frame without data or a 0x81 frame with fewer than four data bytes,
\* is classified as InvalidFrame, and the classification of a decoded frame
\* never panics.
C17_ShortPayloadInvalidFrame ==
    (cx_pc = "classified" /\ cx_dec.ok) =>
        /\ cx_recv.kind # "Panic"
        /\ (cx_dec.packet.frame_type = TX_STATUS_TYPE /\ cx_dec.packet.data = <<>>) =>
               (cx_recv.kind = "InvalidFrame" /\ cx_recv.packet = cx_dec.packet)
        /\ (cx_dec.packet.frame_type = RX_PACKET_TYPE /\ Len(cx_dec.packet.data) < 4) =>
               (cx_recv.kind = "InvalidFrame" /\ cx_recv.packet = cx_dec.packet)

\* the receive frame half of it: fewer than four data bytes give InvalidFrame
C17_ShortReceiveFrameInvalid ==
    (cx_pc = "classified" /\ cx_dec.ok /\ cx_dec.packet.frame_type = RX_PACKET_TYPE
        /\ Len(cx_dec.packet.data) < 4) =>
        (cx_recv.kind = "InvalidFrame" /\ cx_recv.packet = cx_dec.packet)


\* the text of a receive frame: its data after the four header bytes
RxText(xbp) == SubSeq(xbp.data, 5, Len(xbp.data))

\* the event the type byte and the data of a decoded frame stand for
KindByType(xbp) ==
    IF xbp.frame_type = RX_PACKET_TYPE
    THEN IF IsUtf8(RxText(xbp)) /\ TelemetryFromStrOk(RxText(xbp)) THEN "Telemetry" ELSE "Received"
    ELSE IF xbp.frame_type = TX_STATUS_TYPE THEN "Status"
    ELSE "Unrecognised"

\* C18: classifying a byte slice yields one event, fixed by the decode result
\* and the type byte: Invalid with the whole slice when decode fails;
\* for type 0x81 Telemetry when the data is UTF-8 text that parses as a
\* telemetry record and Received otherwise; Status for type 0x89;
\* Unrecognised for every other type byte, 0x01 included.
C18_ClassificationByType ==
    cx_pc = "classified" =>
        IF cx_dec.ok
        THEN /\ cx_recv.kind = KindByType(cx_dec.packet)
             /\ cx_recv.packet = cx_dec.packet
        ELSE cx_recv.kind = "Invalid" /\ cx_recv.raw = cx_wire

\* the same for the frames whose data is long enough for their type
C18_ClassificationOfFullPayloads ==
    (cx_pc = "classified"
        /\ (cx_dec.ok /\ cx_dec.packet.frame_type = RX_PACKET_TYPE => Len(cx_dec.packet.data) >= 4)
        /\ (cx_dec.ok /\ cx_dec.packet.frame_type = TX_STATUS_TYPE => Len(cx_dec.packet.data) >= 1)) =>
        IF cx_dec.ok
        THEN /\ cx_recv.kind = KindByType(cx_dec.packet)
             /\ cx_recv.packet = cx_dec.packet
        ELSE cx_recv.kind = "Invalid" /\ cx_recv.raw = cx_wire

\* the record of the telemetry tests arrived in a receive frame
C18_TelemetryClassified ==
    /\ cx_pc = "classified"
    /\ cx_recv.kind = "Telemetry"
    /\ RxText(cx_recv.packet) = TELEMETRY_SAMPLE


\* the length field of a slice that holds one
LengthField(bytes) == bytes[2] * 256 + bytes[3]

\* the slice with the length 0x0011 in place of 0x007D and the byte after it
WithFixedLength(bytes) ==
    <<START_DELIMITER>> \o U16BE(QUIRK_FIXED_LEN) \o SubSeq(bytes, 5, Len(bytes))

\* C19: a length field of 0x007D followed by 0x31 makes decode consume that
\* byte and decode the frame with the length 0x0011, followed by any other
\* byte it makes decode fail; every other length is used as it was read.
C19_LengthQuirk ==
    (cx_pc = "decoded" /\ Len(cx_wire) >= 4 /\ cx_wire[1] = START_DELIMITER) =>
        /\ (LengthField(cx_wire) = QUIRK_LEN /\ cx_wire[4] = QUIRK_NEXT) =>
               /\ cx_dec = decode(WithFixedLength(cx_wire))
               /\ cx_dec.ok => Len(cx_dec.packet.data) = QUIRK_FIXED_LEN - 2
        /\ (LengthField(cx_wire) = QUIRK_LEN /\ cx_wire[4] # QUIRK_NEXT) =>
               (~cx_dec.ok /\ cx_dec.err = "edge_case")
        /\ (LengthField(cx_wire) # QUIRK_LEN /\ cx_dec.ok) =>
               /\ Len(cx_dec.packet.data) = LengthField(cx_wire) - 2
               /\ cx_dec.packet.frame_type = cx_wire[4]
               /\ cx_dec.packet.frame_id = cx_wire[5]
               /\ cx_dec.packet.data = SubSeq(cx_wire, 6, 3 + LengthField(cx_wire))

\* a slice with the length 0x007D and 0x31 after it was decoded as a frame
\* of fifteen data bytes
C19_QuirkFrameDecoded ==
    /\ cx_pc = "decoded"
    /\ Len(cx_wire) >= 4
    /\ LengthField(cx_wire) = QUIRK_LEN
    /\ cx_wire[4] = QUIRK_NEXT
    /\ cx_dec.ok
    /\ Len(cx_dec.packet.data) = 15
    /\ cx_dec.packet.frame_type = cx_wire[5]


\* one bit of the frame type byte or of a data byte was inverted
TypeOrPayloadFlipped == cx_damage \in {"flip_type", "flip_data"}

\* C20: for every encoded frame, inverting one bit of the frame type byte or
\* of one payload byte and leaving the checksum byte as it was makes decode
\* fail with the checksum error.
C20_BitFlipDetected ==
    (cx_pc = "decoded" /\ TypeOrPayloadFlipped) =>
        (~cx_dec.ok /\ cx_dec.err = "checksum")

\* the same for the frames whose length field is not 0x007D
C20_BitFlipDetectedOtherLengths ==
    (cx_pc = "decoded" /\ TypeOrPayloadFlipped /\ LengthField(cx_wire) # QUIRK_LEN) =>
        (~cx_dec.ok /\ cx_dec.err = "checksum")

\* a frame with an inverted bit in its data was decoded without an error
C20_BitFlipAccepted ==
    /\ cx_pc = "decoded"
    /\ cx_damage = "flip_data"
    /\ cx_dec.ok


\* the bytes a transmit request is to be encoded as: start byte, length
\* 1 + (4 + len), frame type, frame id, destination, options, data, checksum
RequestBytes(req) ==
    LET body == <<TX_REQUEST_TYPE, req.frame_id>> \o U16BE(req.dst) \o <<0>> \o req.data
    IN <<START_DELIMITER>> \o U16BE(1 + (4 + Len(req.data))) \o body \o <<WSub(255, Sum8(body))>>

\* C21: a transmit request with frame id f, destination d and data t is
\* encoded as 0x7E, the big-endian length 1 + (4 + len(t)), 0x01, f, d
\* big-endian, 0x00, t and the checksum 0xFF minus the wrapping sum of the
\* bytes after the length; for id 1, destination 1 and CMD,1047,ST,GPS the
\* length is 0x0014 and the checksum 0x47.
C21_TxRequestBytes ==
    (cx_pc = "encoded" /\ cx_req # NoRequest) =>
        /\ cx_wire = RequestBytes(cx_req)
        /\ cx_req = TxRequest(1, 1, CAL_TEXT) =>
               /\ SubSeq(cx_wire, 2, 3) = <<0, 20>>
               /\ cx_wire[Len(cx_wire)] = 71

\* the checksum half of it: the last byte is 0xFF minus the wrapping sum of
\* the bytes after the length field
C21_TxRequestChecksum ==
    (cx_pc = "encoded" /\ cx_req # NoRequest) =>
        cx_wire[Len(cx_wire)] = WSub(255, Sum8(SubSeq(cx_wire, 4, Len(cx_wire) - 1)))


\* every byte of a frame on the wire between its type byte and its checksum
WireBody(frame) == SubSeq(frame, 5, Len(frame) - 1)

\* the frame came over the wire as it was encoded, with a length that decode
\* uses as it reads it
WholeFrame == cx_damage = "none" /\ LengthField(cx_wire) # QUIRK_LEN

\* C22: for a frame 0x7E, length, type 0x81, payload, checksum the receive
\* packet has src_addr = the first two payload bytes big-endian, rssi = the
\* third, options = the fourth and data = the rest of the payload, the
\* payload being every byte between the type byte and the checksum; a frame
\* of another type is rejected with IncorrectFrameType.
C22_RxPacketFields ==
    (cx_pc = "converted" /\ WholeFrame) =>
        IF cx_wire[4] # RX_PACKET_TYPE
        THEN ~cx_rx.ok /\ cx_rx.err = "IncorrectFrameType"
        ELSE Len(WireBody(cx_wire)) >= 4 =>
                /\ cx_rx.ok
                /\ cx_rx.src_addr = WireBody(cx_wire)[1] * 256 + WireBody(cx_wire)[2]
                /\ cx_rx.rssi = I8(WireBody(cx_wire)[3])
                /\ cx_rx.options = WireBody(cx_wire)[4]
                /\ cx_rx.data = SubSeq(WireBody(cx_wire), 5, Len(WireBody(cx_wire)))

\* the rejection half of it
C22_OtherTypesRejected ==
    (cx_pc = "converted" /\ WholeFrame /\ cx_wire[4] # RX_PACKET_TYPE) =>
        (~cx_rx.ok /\ cx_rx.err = "IncorrectFrameType")

\* what the conversion does: it reads the fields from the second payload
\* byte on, the first one went into the frame id of the decoded packet
C22_RxPacketFieldsShifted ==
    (cx_pc = "converted" /\ WholeFrame /\ cx_wire[4] = RX_PACKET_TYPE
        /\ Len(WireBody(cx_wire)) >= 5) =>
        /\ cx_rx.ok
        /\ cx_dec.packet.frame_id = WireBody(cx_wire)[1]
        /\ cx_rx.src_addr = WireBody(cx_wire)[2] * 256 + WireBody(cx_wire)[3]
        /\ cx_rx.rssi = I8(WireBody(cx_wire)[4])
        /\ cx_rx.options = WireBody(cx_wire)[5]
        /\ cx_rx.data = SubSeq(WireBody(cx_wire), 6, Len(WireBody(cx_wire)))

----------------------------------------------------------------------------
(* Specification of the reader thread on one connection                     *)

InitReader == ReaderInit /\ CxIdle /\ AckIdle /\ LedgerIdle /\ GenIdle /\ FnIdle /\ SimIdle

NextReader ==
    \/ RT_Check
    \/ RT_ReadOk
    \/ RT_ReadTimedOut
    \/ RT_ReadFailed
    \/ RT_Scan
    \/ RT_CloseRadio
    \/ RT_OpenRadio

SpecReader == InitReader /\ [][NextReader]_vars

\* the whole stream has gone through the loop on a connection that is still
\* the current one, or the thread has panicked on the way
StreamConsumed ==
    /\ rx_alive
    /\ CURR_RADIO = radio_num
    /\ \/ rt_pc = "check" /\ rd_pos = Len(stream)
       \/ rt_pc = "panicked"

\* the packets the stream is made of: the noise as Invalid, each frame as what
\* its bytes alone convert to
ExpectedPackets(parts) ==
    (IF Len(parts.k) > 0 THEN <<Invalid(parts.k)>> ELSE <<>>)
        \o <<ReceivedPacketFrom(parts.f1), ReceivedPacketFrom(parts.f2)>>
        \o (IF Len(parts.m) > 0 THEN <<Invalid(parts.m)>> ELSE <<>>)
        \o <<ReceivedPacketFrom(parts.f3)>>

\* C3: for a stream of K noise bytes, a frame, a second frame, M noise bytes
\* and a third frame the thread sends exactly the three frames, classified
\* and in order, and the two noise segments as Invalid, each right before the
\* frame that follows it, and nothing else.
C3_NoiseTolerance ==
    StreamConsumed => packet_chan = ExpectedPackets(stream_parts)

\* the packets sent when the whole stream arrives in one read
OneReadPackets(bytes) == ScanPass(bytes, TRUE).sent

\* C4: whatever the reads the stream is split into, the packets sent are the
\* packets sent when the whole stream arrives in one read.
C4_ChunkingIndependence ==
    StreamConsumed => packet_chan = OneReadPackets(stream)

\* C5: when the read fails with BrokenPipe or another error other than a
\* timeout while the buffer holds bytes, those bytes are the last packet sent,
\* as one Invalid, before the thread ends.
C5_FlushOnDisconnect ==
    (rt_pc = "done" /\ rt_exit \in ReadErrors /\ write_idx # 0 /\ rx_alive)
        => (Len(packet_chan) > 0 /\ packet_chan[Len(packet_chan)] = Invalid(buf))

\* the ways out of radio_thread the transport, the generation and the
\* channel account for
FatalExits == ReadErrors \cup {"superseded", "send_failed"}

\* C15: the reader thread ends only on a read error other than a timeout, on
\* a newer generation, or when the receiving end of the channel is gone:
\* nothing in the bytes it reads ends its loop.
C15_ReaderEndsOnlyFatal ==
    rt_pc \in {"done", "panicked"} => rt_exit \in FatalExits

----------------------------------------------------------------------------
(* Specification of the command ledger: commands are sent down the channel, *)
(* handle_commands runs, statuses arrive, the radio is opened and closed    *)

InitLedger == LedgerInit /\ CxIdle /\ AckIdle /\ ReaderIdle /\ GenIdle /\ FnIdle /\ SimIdle

NextLedger ==
    \/ SendCommand
    \/ Resend
    \/ HC_Recv
    \/ HC_RecvDone
    \/ HC_Next
    \/ HC_RateLimited
    \/ HC_WriteFailed
    \/ HC_WriteOk
    \/ RecvStatus
    \/ OpenRadio
    \/ CloseRadio
    \/ ReaderLock
    \/ ReaderUnlock
    \/ Tick
    \/ UtcTick

SpecLedger == InitLedger /\ [][NextLedger]_vars

\* the step takes a command from the channel into the ledger
IsSubmitStep == cmd_receiver # <<>> /\ cmd_receiver' = Tail(cmd_receiver)

\* C7: every submit adds exactly one new Unsent entry to the ledger and leaves
\* every existing entry in place and unchanged, also when two commands are
\* submitted at the same clock reading.
C7_SubmitAddsOneEntry ==
    [][IsSubmitStep =>
        /\ Cardinality(DOMAIN command_history') = Cardinality(DOMAIN command_history) + 1
        /\ \A k \in DOMAIN command_history :
            k \in DOMAIN command_history' /\ command_history'[k] = command_history[k]
        /\ \E k \in DOMAIN command_history' \ DOMAIN command_history :
            command_history'[k].status = Unsent]_vars

\* Unsent, then Sent, then SentStatus
Rank(status) ==
    IF status.tag = "Unsent" THEN 0 ELSE IF status.tag = "Sent" THEN 1 ELSE 2

\* C6: no entry of the ledger ever moves backwards along
\* Unsent -> Sent{frame_id} -> SentStatus{status}, an entry becomes Sent at most
\* once, and no step (a resend included) changes or removes an existing entry
\* other than by moving it forwards.
C6_LifecycleMonotone ==
    [][\A k \in DOMAIN command_history :
        /\ k \in DOMAIN command_history'
        /\ command_history'[k].cmd = command_history[k].cmd
        /\ Rank(command_history'[k].status) >= Rank(command_history[k].status)
        /\ (command_history[k].status.tag = "Sent" /\ command_history'[k].status.tag = "Sent")
            => command_history'[k].status = command_history[k].status]_vars

\* the step gives the entry at key k a Sent status it did not have before
BecomesSent(k) ==
    /\ command_history'[k].status.tag = "Sent"
    /\ (k \notin DOMAIN command_history \/ command_history[k].status # command_history'[k].status)

\* the frame type of a transmit request on the wire, the frame id and the
\* command its buffer holds
WireFrameType(frame) == frame[4]
WireFrameId(frame) == frame[6]
WirePayload(frame) == SubSeq(frame, 10, Len(frame) - 1)

C9_FirstUnsentOnly ==
    [][Len(transport_out') > Len(transport_out) =>
        \A k \in DOMAIN command_history :
            command_history[k].status = Unsent =>
                command_history[k].sub >= command_history[hc_cursor].sub]_vars

\* the step writes a command frame to the transport
IsWriteStep == Len(written') > Len(written)

\* C11: between two successful writes of command frames at least 100 ms
\* pass, no command frame is written within 100 ms of the opening of the
\* link, and a call of handle_commands writes at most one frame: the call
\* ends with the write.
C11_RateLimit ==
    [][IsWriteStep =>
        /\ Len(written') = Len(written) + 1
        /\ hc_pc' = "idle"
        /\ opened_at >= 0
        /\ written'[Len(written')].at - opened_at >= RATE_LIMIT_MS
        /\ Len(written) > 0 =>
            written'[Len(written')].at - written[Len(written)].at >= RATE_LIMIT_MS]_vars

\* two command frames have been written on the link
C11_TwoWrites ==
    /\ Len(written) = 2
    /\ written[2].at - written[1].at >= RATE_LIMIT_MS
    /\ written[1].at - opened_at >= RATE_LIMIT_MS

\* C14: the transport of a link is never used by two parties at once: at
\* most one of the reader thread and handle_commands holds a guard of the
\* mutex, and a command frame is written only while handle_commands holds it.
C14_TransportExclusive ==
    /\ [](Cardinality(radio_lock) <= 1)
    /\ [][IsWriteStep => radio_lock = {"sender"}]_vars

\* handle_commands holds the guard and the reader thread does not, after an
\* earlier attempt that wrote nothing
C14_SenderHoldsAfterBusy ==
    /\ radio_lock = {"sender"}
    /\ hc_pc = "locked"
    /\ nalloc >= 2

----------------------------------------------------------------------------
(* Specification of the frame ids: the counter at any of its values, then   *)
(* requests built one after the other                                       *)

MaxIdAllocs == 2

\* handle_commands at an Unsent entry with the counter at any value it takes
FrameIdInit ==
    /\ command_history = <<>>
    /\ cmd_receiver = <<>>
    /\ radio = "open"
    /\ radio_last_sent = 0
    /\ FRAME_ID_COUNTER \in Byte
    /\ radio_lock = {}
    /\ now = 0
    /\ utc = 0
    /\ hc_pc = "stamp"
    /\ hc_cursor = -1
    /\ hc_frame_id = 0
    /\ transport_out = <<>>
    /\ written = <<>>
    /\ opened_at = 0
    /\ nsub = 0
    /\ nalloc = 0

\* handle_commands builds the request of a command: the frame id from the
\* counter, the packet, its bytes
FI_Stamp ==
    /\ hc_pc = "stamp"
    /\ nalloc < MaxIdAllocs
    /\ \E cmd \in Commands, a \in {AllocFrameId(FRAME_ID_COUNTER)} :
        /\ hc_frame_id' = a.frame_id
        /\ FRAME_ID_COUNTER' = a.counter
        /\ \E id_arg \in FrameIdArgs(a.frame_id) :
            transport_out' = Append(transport_out,
                serialise(TxRequestPacket(id_arg, a.frame_id, BROADCAST_ADDR, cmd)))
    /\ nalloc' = nalloc + 1
    /\ UNCHANGED <<command_history, cmd_receiver, radio, radio_last_sent, radio_lock, now, utc,
                   hc_pc, hc_cursor, written, opened_at, nsub>>
    /\ UNCHANGED <<fn_vars, cx_vars, ack_vars, reader_vars, gen_vars, sim_vars>>

InitFrameId == FrameIdInit /\ CxIdle /\ AckIdle /\ ReaderIdle /\ GenIdle /\ FnIdle /\ SimIdle

NextFrameId == FI_Stamp

SpecFrameId == InitFrameId /\ [][NextFrameId]_vars

----------------------------------------------------------------------------
(* Specification of the generations: connections are opened and closed and  *)
(* every radio thread started runs its loop until it leaves it              *)

MaxRadioNum == 5

\* CURR_RADIO left as it is
NextGeneration_same(curr) == curr

\* CURR_RADIO.fetch_add(1, ORDER) + 1
NextGeneration(curr) == curr + 1

Thread(num, pc, exit) == [radio_num |-> num, pc |-> pc, exit |-> exit]

\* the ways one turn of the loop body of radio_thread ends: back at the loop
\* condition (bytes read and scanned, or TimedOut), return on another read
\* error, return because packet_tx.send failed, a panic
BodyOutcomes == {"again", "read_error", "send_failed", "panic"}

GenInit == radio_threads = <<>>

\* open_radio_connection, behind the "Open port" button shown while there is
\* no radio: the port opens, the generation moves on and the thread is
\* spawned with it, unless the spawn fails
GenOpen ==
    /\ radio = "none"
    /\ CURR_RADIO < MaxRadioNum
    /\ CURR_RADIO' = NextGeneration(CURR_RADIO)
    /\ radio' = "open"
    /\ radio_lock' = {}
    /\ radio_last_sent' = now
    /\ opened_at' = now
    /\ \E spawned \in BOOLEAN :
        radio_threads' = IF spawned
                         THEN Append(radio_threads, Thread(NextGeneration(CURR_RADIO), "check", "none"))
                         ELSE radio_threads
    /\ UNCHANGED <<command_history, cmd_receiver, FRAME_ID_COUNTER, now, utc, hc_pc,
                   hc_cursor, hc_frame_id, transport_out, written, nsub, nalloc>>
    /\ UNCHANGED <<stream, stream_parts, rd_pos, buf, write_idx, rt_pc, rt_exit, packet_chan,
                   rx_alive>>
    /\ UNCHANGED <<fn_vars, cx_vars, ack_vars, sim_vars>>

\* close_radio, behind the "Disconnect" button and behind every change of the
\* port selection, with or without a radio
GenClose ==
    /\ CURR_RADIO < MaxRadioNum
    /\ CURR_RADIO' = NextGeneration(CURR_RADIO)
    /\ radio' = "none"
    /\ UNCHANGED <<command_history, cmd_receiver, radio_last_sent, FRAME_ID_COUNTER,
                   radio_lock, now, utc, hc_pc, hc_cursor, hc_frame_id, transport_out, written,
                   opened_at, nsub, nalloc>>
    /\ UNCHANGED <<stream, stream_parts, rd_pos, buf, write_idx, rt_pc, rt_exit, packet_chan,
                   rx_alive>>
    /\ UNCHANGED <<fn_vars, cx_vars, ack_vars, gen_vars, sim_vars>>

\* thread i at `while radio_num == CURR_RADIO.load(ORDER)`
GenCheck(i) ==
    /\ i \in DOMAIN radio_threads
    /\ radio_threads[i].pc = "check"
    /\ radio_threads' =
        [radio_threads EXCEPT ![i] =
            IF radio_threads[i].radio_num = CURR_RADIO
            THEN Thread(radio_threads[i].radio_num, "body", "none")
            ELSE Thread(radio_threads[i].radio_num, "done", "superseded")]
    /\ UNCHANGED <<fn_vars, cx_vars, ack_vars, ledger_vars, reader_vars, sim_vars>>

\* thread i goes through the loop body once
GenBody(i) ==
    /\ i \in DOMAIN radio_threads
    /\ radio_threads[i].pc = "body"
    /\ \E outcome \in BodyOutcomes :
        radio_threads' =
            [radio_threads EXCEPT ![i] =
                IF outcome = "again"
                THEN Thread(radio_threads[i].radio_num, "check", "none")
                ELSE Thread(radio_threads[i].radio_num, "done", outcome)]
    /\ UNCHANGED <<fn_vars, cx_vars, ack_vars, ledger_vars, reader_vars, sim_vars>>

GenThreads == 1..MaxRadioNum

InitGen == GenInit /\ CxIdle /\ AckIdle /\ LedgerIdle /\ ReaderIdle /\ FnIdle /\ SimIdle

NextGen ==
    \/ GenOpen
    \/ GenClose
    \/ \E i \in GenThreads : GenCheck(i)
    \/ \E i \in GenThreads : GenBody(i)

\* every thread that can take a step of its loop takes it in the end
GenFairness == \A i \in GenThreads : WF_vars(GenCheck(i)) /\ WF_vars(GenBody(i))

SpecGen == InitGen /\ [][NextGen]_vars /\ GenFairness

\* thread i is in its loop
Running(i) == i \in DOMAIN radio_threads /\ radio_threads[i].pc # "done"

\* thread i has left its loop
Ended(i) == i \in DOMAIN radio_threads /\ radio_threads[i].pc = "done"

\* no thread is ahead of the counter, and no two threads in their loops have
\* the generation the counter shows
GenerationsApart ==
    /\ \A i \in DOMAIN radio_threads : radio_threads[i].radio_num <= CURR_RADIO
    /\ \A i, j \in DOMAIN radio_threads :
        (Running(i) /\ Running(j)
            /\ radio_threads[i].radio_num = CURR_RADIO
            /\ radio_threads[j].radio_num = CURR_RADIO) => i = j

\* C13: once a connection is opened or the link is closed the counter differs
\* from the generation of every thread started before, each such thread finds
\* the mismatch and leaves its loop in the end, and never are two threads in
\* their loops with the generation the counter shows.
C13_OlderReadersEnd ==
    /\ []GenerationsApart
    /\ [][CURR_RADIO' # CURR_RADIO =>
            \A i \in DOMAIN radio_threads : radio_threads[i].radio_num # CURR_RADIO']_vars
    /\ \A i \in GenThreads :
        (i \in DOMAIN radio_threads /\ radio_threads[i].radio_num # CURR_RADIO)
            ~> Ended(i)

\* a thread has left its loop on the mismatch while the thread of a later
\* connection is in its loop
C13_SupersededBesideCurrent ==
    \E i, j \in DOMAIN radio_threads :
        /\ radio_threads[i].exit = "superseded"
        /\ Running(j)
        /\ radio_threads[j].radio_num = CURR_RADIO


----------------------------------------------------------------------------
(* Specification of the delivery status: TxStatus::try_from is called on    *)
(* a packet with any status byte                                            *)

\* packets of the status type and of another type, without data, with the
\* status byte alone and with a byte after it
StatusPackets ==
    {XbeePacket(ft, 1, d) : ft \in {TX_STATUS_TYPE, 144},
                            d \in {<<>>} \cup {<<b>> : b \in Byte} \cup {<<b, 117>> : b \in Byte}}

StatusInit ==
    /\ fn_pc = "call"
    /\ fn_in \in StatusPackets
    /\ fn_out = <<>>

\* TxStatus::try_from(xbp)
StatusTryFrom ==
    /\ fn_pc = "call"
    /\ fn_out' = TxStatusTryFrom(fn_in)
    /\ fn_pc' = "returned"
    /\ UNCHANGED fn_in
    /\ UNCHANGED <<cx_vars, ack_vars, ledger_vars, reader_vars, gen_vars, sim_vars>>

InitStatus == StatusInit /\ CxIdle /\ AckIdle /\ LedgerIdle /\ ReaderIdle /\ GenIdle /\ SimIdle

NextStatus == StatusTryFrom

SpecStatus == InitStatus /\ [][NextStatus]_vars

\* C23: the conversion of a delivery status byte is total: each of the 256
\* byte values gives a variant, a listed code its own variant and every
\* other byte the variant UNKNOWN, and the conversion never fails.
C23_StatusByteTotal ==
    (fn_pc = "returned" /\ fn_in.frame_type = TX_STATUS_TYPE /\ fn_in.data # <<>>) =>
        /\ fn_out.outcome = "Ok"
        /\ fn_out.status \in TxStatusCodes
        /\ fn_in.data[1] \in TxStatusCodes => fn_out.status = fn_in.data[1]
        /\ fn_in.data[1] \notin TxStatusCodes => fn_out.status = UNKNOWN

\* the byte 0x05, which is no listed code, was converted to UNKNOWN
C23_UnlistedByteUnknown ==
    /\ fn_pc = "returned"
    /\ fn_in = XbeePacket(TX_STATUS_TYPE, 1, <<5>>)
    /\ fn_out.outcome = "Ok"
    /\ fn_out.status = UNKNOWN


----------------------------------------------------------------------------
(* Specification of the salvage: recover_telemetry is called on an event    *)

TEAM_ID_STR == <<49, 48, 52, 55>>

IsAscii(b) == b < 128

AsciiPush(strings, byte) ==
    IF IsAscii(byte)
    THEN [strings EXCEPT ![Len(strings)] = Append(strings[Len(strings)], byte)]
    ELSE IF strings[Len(strings)] # <<>> THEN Append(strings, <<>>)
    ELSE strings

\* the loop over data[lo..hi] with the strings found so far: an ASCII byte
\* goes to the end of the last string, another byte starts a new string
\* unless the last one is empty
RECURSIVE AsciiLoop(_, _, _, _)
AsciiLoop(data, lo, hi, strings) ==
    IF lo > hi THEN strings
    ELSE IF lo = hi THEN AsciiPush(strings, data[lo])
    ELSE CHOOSE done \in {AsciiLoop(data, (lo + hi) \div 2 + 1, hi, half) :
                            half \in {AsciiLoop(data, lo, (lo + hi) \div 2, strings)}} : TRUE

\* the strings of the whole data, from vec![String::new()]
AsciiSubstrings(data) == AsciiLoop(data, 1, Len(data), <<(<<>>)>>)

\* s.find(pat): the first position at which pat starts in s, 0 for None
FindStr(s, pat) ==
    IF \E i \in 1..(Len(s) - Len(pat) + 1) : SubSeq(s, i, i + Len(pat) - 1) = pat
    THEN CHOOSE i \in 1..(Len(s) - Len(pat) + 1) :
            /\ SubSeq(s, i, i + Len(pat) - 1) = pat
            /\ \A j \in 1..(i - 1) : SubSeq(s, j, j + Len(pat) - 1) # pat
    ELSE 0

\* the closure of filter_map with the whole string parsed
RecoverFrom_whole(s) ==
    IF FindStr(s, TEAM_ID_STR) = 0 THEN <<>>
    ELSE IF TelemetryFromStrOk(s) THEN <<s>>
    ELSE <<>>

\* the closure of filter_map: the text from the team id on, parsed; the
\* record is held as the text it was parsed from
RecoverFrom(s) ==
    IF FindStr(s, TEAM_ID_STR) = 0 THEN <<>>
    ELSE IF TelemetryFromStrOk(SubSeq(s, FindStr(s, TEAM_ID_STR), Len(s)))
         THEN <<SubSeq(s, FindStr(s, TEAM_ID_STR), Len(s))>>
    ELSE <<>>

RECURSIVE FilterMapRecover(_, _)
FilterMapRecover(strings, n) ==
    IF n = 0 THEN <<>>
    ELSE FilterMapRecover(strings, n - 1) \o RecoverFrom(strings[n])

\* GroundStationGui::recover_telemetry
recover_telemetry(packet) ==
    IF packet.kind # "Invalid" THEN <<>>
    ELSE FilterMapRecover(AsciiSubstrings(packet.raw), Len(AsciiSubstrings(packet.raw)))

MaxPieces == 3

\* what invalid data is put together from: a byte that is not ASCII, text
\* without the team id, the team id alone, a telemetry record, the record
\* without its last field
SalvagePieces ==
    {<<255>>, <<65, 66>>, TEAM_ID_STR, TELEMETRY_SAMPLE,
     SubSeq(TELEMETRY_SAMPLE, 1, Len(TELEMETRY_SAMPLE) - 5)}

RECURSIVE Concat(_, _)
Concat(parts, n) == IF n = 0 THEN <<>> ELSE Concat(parts, n - 1) \o parts[n]

SalvageData == {Concat(ps, Len(ps)) : ps \in SeqsUpTo(SalvagePieces, MaxPieces)}

\* the events recover_telemetry is called with
SalvageEvents ==
    {Invalid(d) : d \in SalvageData}
        \cup {Received(k, XbeePacket(RX_PACKET_TYPE, 0, RxHeader \o TELEMETRY_SAMPLE), NoStatus) :
                k \in {"Telemetry", "Received", "InvalidFrame", "Unrecognised"}}
        \cup {Received("Status", XbeePacket(TX_STATUS_TYPE, 1, <<0>>),
                       [frame_id |-> 1, status |-> SUCCESS])}

SalvageInit ==
    /\ fn_pc = "call"
    /\ fn_in \in SalvageEvents
    /\ fn_out = <<>>

Salvage ==
    /\ fn_pc = "call"
    /\ fn_out' = recover_telemetry(fn_in)
    /\ fn_pc' = "returned"
    /\ UNCHANGED fn_in
    /\ UNCHANGED <<cx_vars, ack_vars, ledger_vars, reader_vars, gen_vars, sim_vars>>

InitSalvage == SalvageInit /\ CxIdle /\ AckIdle /\ LedgerIdle /\ ReaderIdle /\ GenIdle /\ SimIdle

NextSalvage == Salvage

SpecSalvage == InitSalvage /\ [][NextSalvage]_vars

\* the end of the maximal run of ASCII bytes that starts at i
RunEnd(s, i) ==
    CHOOSE j \in i..Len(s) :
        /\ \A k \in i..j : IsAscii(s[k])
        /\ j = Len(s) \/ ~IsAscii(s[j + 1])

RecordOfRun(run) ==
    IF \E i \in 1..(Len(run) - Len(TEAM_ID_STR) + 1) :
            /\ SubSeq(run, i, i + Len(TEAM_ID_STR) - 1) = TEAM_ID_STR
            /\ \A j \in 1..(i - 1) : SubSeq(run, j, j + Len(TEAM_ID_STR) - 1) # TEAM_ID_STR
            /\ TelemetryFromStrOk(SubSeq(run, i, Len(run)))
    THEN <<SubSeq(run, FindStr(run, TEAM_ID_STR), Len(run))>>
    ELSE <<>>

\* the records of the maximal runs of ASCII bytes of s from position i on,
\* in the order of the runs: for a run that holds the team id, the text from
\* its first team id on if that text parses
RECURSIVE RunRecords(_, _)
RunRecords(s, i) ==
    IF i > Len(s) THEN <<>>
    ELSE IF ~IsAscii(s[i]) THEN RunRecords(s, i + 1)
    ELSE RecordOfRun(SubSeq(s, i, RunEnd(s, i))) \o RunRecords(s, RunEnd(s, i) + 1)

\* the number of maximal runs of ASCII bytes in s
RunCount(s) ==
    Cardinality({i \in 1..Len(s) : IsAscii(s[i]) /\ (i = 1 \/ ~IsAscii(s[i - 1]))})

\* C24: the salvage of an Invalid event returns, for the maximal runs of
\* ASCII bytes of its data in their order, the record parsed from the first
\* team id of the run on, for the runs that hold the team id and parse; that
\* is at most one record per run; every other event gives nothing, and the
\* salvage always returns.
C24_SalvageRuns ==
    fn_pc = "returned" =>
        IF fn_in.kind = "Invalid"
        THEN /\ fn_out = RunRecords(fn_in.raw, 1)
             /\ Len(fn_out) <= RunCount(fn_in.raw)
        ELSE fn_out = <<>>

\* two records were salvaged from data with a byte that is not ASCII between
\* them
C24_TwoRecordsSalvaged ==
    /\ fn_pc = "returned"
    /\ fn_in = Invalid(TELEMETRY_SAMPLE \o <<255>> \o TELEMETRY_SAMPLE)
    /\ fn_out = <<TELEMETRY_SAMPLE, TELEMETRY_SAMPLE>>

----------------------------------------------------------------------------
(* The clock fields parsed on their own                                    *)

\* the digits the parts of a clock text are written with
ClockHours == {<<48, 48>>, <<55>>, <<50, 51>>, <<50, 52>>, <<57, 57>>, <<50, 53, 53>>,
               <<50, 53, 54>>, <<43, 53>>, <<>>, <<49, 97>>}
ClockMinutes == {<<48, 48>>, <<53, 57>>, <<54, 48>>, <<50, 53, 53>>}
ClockCentis == {<<48, 48>>, <<53>>, <<57, 57>>, <<49, 48, 48>>, <<49, 57, 57>>,
                <<50, 53, 52>>, <<50, 53, 53>>, <<50, 53, 54>>, <<>>}

\* hh:mm:ss, with .cc after it if the centiseconds are written
ClockText(h, m, s, cs, has_cs) ==
    h \o <<COLON>> \o m \o <<COLON>> \o s \o (IF has_cs THEN <<DOT>> \o cs ELSE <<>>)

\* the texts parsed as a mission time or as a GPS time, and their parts
ClockInputs ==
    {[clock |-> c, h |-> h, m |-> m, s |-> s, cs |-> cs, has_cs |-> TRUE,
      text |-> ClockText(h, m, s, cs, TRUE)] :
        c \in {"mission", "gps"}, h \in ClockHours, m \in ClockMinutes,
        s \in ClockMinutes, cs \in ClockCentis}
      \cup
    {[clock |-> c, h |-> h, m |-> m, s |-> s, cs |-> <<>>, has_cs |-> FALSE,
      text |-> ClockText(h, m, s, <<>>, FALSE)] :
        c \in {"mission", "gps"}, h \in ClockHours, m \in ClockMinutes, s \in ClockMinutes}

ParseInit ==
    /\ fn_pc = "call"
    /\ fn_in \in ClockInputs
    /\ fn_out = ClockErr

\* s.parse::<MissionTime>()
ParseMissionTime ==
    /\ fn_pc = "call"
    /\ fn_in.clock = "mission"
    /\ fn_out' = MissionTimeFromStr(fn_in.text)
    /\ fn_pc' = "returned"
    /\ UNCHANGED fn_in
    /\ UNCHANGED <<cx_vars, ack_vars, ledger_vars, reader_vars, gen_vars, sim_vars>>

\* s.parse::<GpsTime>()
ParseGpsTime ==
    /\ fn_pc = "call"
    /\ fn_in.clock = "gps"
    /\ fn_out' = GpsTimeFromStr(fn_in.text)
    /\ fn_pc' = "returned"
    /\ UNCHANGED fn_in
    /\ UNCHANGED <<cx_vars, ack_vars, ledger_vars, reader_vars, gen_vars, sim_vars>>

InitParse == ParseInit /\ CxIdle /\ AckIdle /\ LedgerIdle /\ ReaderIdle /\ GenIdle /\ SimIdle

NextParse == ParseMissionTime \/ ParseGpsTime

SpecParse == InitParse /\ [][NextParse]_vars

\* the number a part is written as, -1 if it is not written in digits
Written(part) == IF AllDigits(part) THEN DigitsValue(part, Len(part)) ELSE -1

\* a part of the input is out of its range
OutOfRange(in) ==
    \/ Written(in.h) >= 24
    \/ Written(in.m) >= 60
    \/ Written(in.s) >= 60
    \/ in.has_cs /\ Written(in.cs) >= 100

\* C25: parsing a clock field rejects every input whose hours are 24 or
\* more, whose minutes or seconds are 60 or more, or whose written
\* centiseconds are 100 or more, 100 to 255 included; the result has the
\* sentinel for unknown centiseconds only if the input omits the centiseconds.
C25_ClockRangeChecked ==
    fn_pc = "returned" =>
        /\ OutOfRange(fn_in) => ~fn_out.ok
        /\ (fn_in.clock = "mission" /\ fn_out.ok /\ fn_out.cs = NO_CS) => ~fn_in.has_cs

\* the same for every written centisecond value but 255: the input is
\* rejected when a part is out of range, and the sentinel comes from an
\* input without centiseconds
C25_RangeCheckedBut255 ==
    (fn_pc = "returned" /\ ~(fn_in.has_cs /\ Written(fn_in.cs) = NO_CS)) =>
        /\ OutOfRange(fn_in) => ~fn_out.ok
        /\ (fn_in.clock = "mission" /\ fn_out.ok /\ fn_out.cs = NO_CS) => ~fn_in.has_cs

\* a mission time written with 255 centiseconds was accepted and has the
\* sentinel
C25_Written255Accepted ==
    /\ fn_pc = "returned"
    /\ fn_in.clock = "mission"
    /\ fn_in.has_cs /\ Written(fn_in.cs) = NO_CS
    /\ fn_out.ok /\ fn_out.cs = NO_CS

----------------------------------------------------------------------------
(* The mission time formatted, parsed back and converted to seconds        *)

\* Display of an unsigned integer
RECURSIVE Dec(_)
Dec(n) == IF n < 10 THEN <<48 + n>> ELSE Dec(n \div 10) \o <<48 + (n % 10)>>

\* {n} with no width
Pad2_unpadded(n) == Dec(n)

\* {n:02}: at least two digits, zeros in front
Pad2(n) == IF n < 10 THEN <<48>> \o Dec(n) ELSE Dec(n)

\* impl Display for MissionTime
MissionTimeDisplay(t) ==
    IF t.cs < 100
    THEN Pad2(t.h) \o <<COLON>> \o Pad2(t.m) \o <<COLON>> \o Pad2(t.s) \o <<DOT>> \o Pad2(t.cs)
    ELSE Pad2(t.h) \o <<COLON>> \o Pad2(t.m) \o <<COLON>> \o Pad2(t.s)

\* f64 as u8: the integer part, saturated
AsU8(x) == IF x > U8_MAX THEN U8_MAX ELSE x

\* MissionTime::as_seconds; the f64 is held in hundredths of a second, the
\* double returned is the one nearest to that number of hundredths
as_seconds(t) == t.h * 360000 + t.m * 6000 + t.s * 100 + t.cs

\* (sec * 100.0) % 100.0 as u8 for sec nearest to a number of hundredths:
\* hundredths that are a multiple of a quarter are exact in binary; with any
\* other the product comes out at the integer or just below it
CsOutcomes(c) == IF c % 25 = 0 THEN {c} ELSE {c - 1, c}

\* MissionTime::from_seconds of a double returned by as_seconds
from_seconds(sec) ==
    {[ok |-> TRUE, h |-> AsU8(sec \div 360000), m |-> (sec \div 6000) % 60,
      s |-> (sec \div 100) % 60, cs |-> c] : c \in CsOutcomes(sec % 100)}

\* the mission times formatted and converted: in range, and with
\* centiseconds that are neither below 100 nor the sentinel
ClockValues ==
    {[h |-> h, m |-> m, s |-> s, cs |-> cs] :
        h \in {0, 1, 9, 10, 23}, m \in {0, 5, 59}, s \in {0, 9, 57, 58, 59},
        cs \in {0, 1, 9, 10, 25, 50, 99, 100, 254, NO_CS}}

ClockInit ==
    /\ fn_pc = "call"
    /\ fn_in \in ClockValues
    /\ fn_out = [text |-> <<>>, back |-> ClockErr]

\* format!("{mt}")
ClockFormat ==
    /\ fn_pc = "call"
    /\ fn_out' = [text |-> MissionTimeDisplay(fn_in), back |-> ClockErr]
    /\ fn_pc' = "formatted"
    /\ UNCHANGED fn_in
    /\ UNCHANGED <<cx_vars, ack_vars, ledger_vars, reader_vars, gen_vars, sim_vars>>

\* text.parse::<MissionTime>()
ClockParse ==
    /\ fn_pc = "formatted"
    /\ fn_out' = [fn_out EXCEPT !.back = MissionTimeFromStr(fn_out.text)]
    /\ fn_pc' = "parsed"
    /\ UNCHANGED fn_in
    /\ UNCHANGED <<cx_vars, ack_vars, ledger_vars, reader_vars, gen_vars, sim_vars>>

\* MissionTime::from_seconds(mt.as_seconds())
ClockSeconds ==
    /\ fn_pc = "call"
    /\ \E rt \in from_seconds(as_seconds(fn_in)) :
            fn_out' = [text |-> <<>>, back |-> rt]
    /\ fn_pc' = "converted"
    /\ UNCHANGED fn_in
    /\ UNCHANGED <<cx_vars, ack_vars, ledger_vars, reader_vars, gen_vars, sim_vars>>

InitClock == ClockInit /\ CxIdle /\ AckIdle /\ LedgerIdle /\ ReaderIdle /\ GenIdle /\ SimIdle

NextClock == ClockFormat \/ ClockParse \/ ClockSeconds

SpecClock == InitClock /\ [][NextClock]_vars

\* the two digits of a number below 100
TwoDigits(n) == <<48 + (n \div 10), 48 + (n % 10)>>

\* the value parsed, as a record of the result type
Parsed(t) == [ok |-> TRUE, h |-> t.h, m |-> t.m, s |-> t.s, cs |-> t.cs]

\* C26: for every clock value with h < 24, m < 60, s < 60 and centiseconds
\* below 100 or the sentinel, parsing the formatted text gives the value
\* back; with the sentinel the text is hh:mm:ss, otherwise hh:mm:ss.cc, two
\* digits per field.
C26_FormatParseRoundTrip ==
    (/\ fn_pc \in {"formatted", "parsed"}
     /\ fn_in.h < 24 /\ fn_in.m < 60 /\ fn_in.s < 60
     /\ (fn_in.cs < 100 \/ fn_in.cs = NO_CS)) =>
        /\ fn_pc = "parsed" => fn_out.back = Parsed(fn_in)
        /\ fn_out.text =
              TwoDigits(fn_in.h) \o <<COLON>> \o TwoDigits(fn_in.m) \o <<COLON>>
                  \o TwoDigits(fn_in.s)
                  \o (IF fn_in.cs = NO_CS THEN <<>> ELSE <<DOT>> \o TwoDigits(fn_in.cs))

\* a value with the sentinel was formatted without a fraction and parsed back
C26_SentinelRoundTrip ==
    /\ fn_pc = "parsed"
    /\ fn_in = [h |-> 1, m |-> 5, s |-> 9, cs |-> NO_CS]
    /\ fn_out.text = <<48, 49, 58, 48, 53, 58, 48, 57>>
    /\ fn_out.back = Parsed(fn_in)

\* the distance of two centisecond values
AbsDiff(a, b) == IF a < b THEN b - a ELSE a - b

\* C27: for every clock value that parse accepts, from_seconds(as_seconds)
\* has the same hour, minute and second, and centiseconds that differ by at
\* most 1.
C27_SecondsRoundTrip ==
    (fn_pc = "converted" /\ MissionTimeNew(fn_in.h, fn_in.m, fn_in.s, fn_in.cs).ok) =>
        /\ fn_out.back.h = fn_in.h
        /\ fn_out.back.m = fn_in.m
        /\ fn_out.back.s = fn_in.s
        /\ AbsDiff(fn_out.back.cs, fn_in.cs) <= 1

\* the same for the values with centiseconds below 100
C27_SecondsRoundTripKnownCs ==
    (fn_pc = "converted" /\ MissionTimeNew(fn_in.h, fn_in.m, fn_in.s, fn_in.cs).ok
        /\ fn_in.cs < 100) =>
        /\ fn_out.back.h = fn_in.h
        /\ fn_out.back.m = fn_in.m
        /\ fn_out.back.s = fn_in.s
        /\ AbsDiff(fn_out.back.cs, fn_in.cs) <= 1

\* a time without centiseconds came back two seconds later
C27_SentinelShifted ==
    /\ fn_pc = "converted"
    /\ fn_in = [h |-> 23, m |-> 59, s |-> 58, cs |-> NO_CS]
    /\ fn_out.back.h = 24 /\ fn_out.back.m = 0 /\ fn_out.back.s = 0

----------------------------------------------------------------------------
(* The telemetry record formatted and parsed                               *)

\* a run of n zeros
Zeros(n) == [i \in 1..n |-> 48]

\* s without its trailing zeros
RECURSIVE StripTrailingZeros(_)
StripTrailingZeros(s) ==
    IF s # <<>> /\ s[Len(s)] = 48 THEN StripTrailingZeros(SubSeq(s, 1, Len(s) - 1)) ELSE s

\* the number a digit string stands for
RECURSIVE Num(_)
Num(s) == IF s = <<>> THEN 0 ELSE Num(SubSeq(s, 1, Len(s) - 1)) * 10 + (s[Len(s)] - 48)

\* an f64 as the decimal number it is nearest to: sign, integer digits
\* without leading zeros, fraction digits without trailing zeros; infinity
\* and NaN have their name in the place of the integer digits
F64(neg, int, frac) == [neg |-> neg, int |-> int, frac |-> frac]
F64_INF == <<105, 110, 102>>
F64_NAN == <<78, 97, 78>>

\* the number with the digits all and the decimal point after the first
\* point of them
F64Shift(neg, all, point) ==
    IF point <= 0 THEN F64(neg, <<48>>, StripTrailingZeros(Zeros(0 - point) \o all))
    ELSE IF point >= Len(all) THEN F64(neg, StripZeros(all \o Zeros(point - Len(all))), <<>>)
    ELSE F64(neg, StripZeros(SubSeq(all, 1, point)),
             StripTrailingZeros(SubSeq(all, point + 1, Len(all))))

\* a decimal number text m without sign, times ten to the e
F64Decimal(neg, m, e) ==
    IF IndexOf(m, DOT) = 0 THEN F64Shift(neg, m, Len(m) + e)
    ELSE F64Shift(neg, Before(m, IndexOf(m, DOT)) \o After(m, IndexOf(m, DOT)),
                  IndexOf(m, DOT) - 1 + e)

\* the exponent written in x
Exponent(x) == IF x # <<>> /\ x[1] = MINUS THEN 0 - Num(Signed(x)) ELSE Num(Signed(x))

\* f64::from_str(s) for a text it accepts, within the range and the
\* precision of the type
F64FromStr(s) ==
    IF LowerCase(Signed(s)) \in F64Names
    THEN IF Lower(Signed(s)[1]) = 110 THEN F64(FALSE, F64_NAN, <<>>)
         ELSE F64(s[1] = MINUS, F64_INF, <<>>)
    ELSE IF ExpAt(Signed(s)) = 0 THEN F64Decimal(s[1] = MINUS, Signed(s), 0)
    ELSE F64Decimal(s[1] = MINUS, Before(Signed(s), ExpAt(Signed(s))),
                    Exponent(After(Signed(s), ExpAt(Signed(s)))))

\* the digits of n with the decimal point before the last p of them
Fixed(n, p) ==
    IF Len(Dec(n)) > p
    THEN SubSeq(Dec(n), 1, Len(Dec(n)) - p) \o <<DOT>>
            \o SubSeq(Dec(n), Len(Dec(n)) - p + 1, Len(Dec(n)))
    ELSE <<48, DOT>> \o Zeros(p - Len(Dec(n))) \o Dec(n)

\* the numbers of units of the last place a fraction is rounded to: a
\* dropped part below a half goes down, above a half up; a dropped part
\* written as exactly a half goes where the double lies, down or up
Rounded(n, dropped) ==
    IF dropped[1] < 53 THEN {n}
    ELSE IF dropped[1] > 53 \/ Len(dropped) > 1 THEN {n + 1}
    ELSE {n, n + 1}

\* the sign as written by Display
SignOf(v) == IF v.neg THEN <<MINUS>> ELSE <<>>

\* {v:.p}: the texts Display can write for the f64 with p decimal places
F64Display(v, p) ==
    IF v.int = F64_NAN THEN {F64_NAN}
    ELSE IF v.int = F64_INF THEN {SignOf(v) \o F64_INF}
    ELSE IF Len(v.frac) <= p
    THEN {SignOf(v) \o v.int \o <<DOT>> \o v.frac \o Zeros(p - Len(v.frac))}
    ELSE {SignOf(v) \o Fixed(n, p) :
            n \in Rounded(Num(v.int \o SubSeq(v.frac, 1, p)),
                          SubSeq(v.frac, p + 1, Len(v.frac)))}

\* the derived FromStr and Display of the one-letter enums
LetterEnum(f, letter, variant, other) == IF f = <<letter>> THEN variant ELSE other
EnumLetter(v, variant, letter, other) == IF v = variant THEN <<letter>> ELSE <<other>>

YEETED == <<89, 69, 69, 84, 69, 68>>

\* the values of State
StateYeeted == [variant |-> "Yeeted", text |-> <<>>]
StateOther(text) == [variant |-> "Other", text |-> text]

\* State::from_str without the arm of the known state
StateFromStr_other(s) == StateOther(s)

\* State::from_str
StateFromStr(s) == IF s = YEETED THEN StateYeeted ELSE StateOther(s)

\* Display of State
StateDisplay(st) == IF st.variant = "Yeeted" THEN YEETED ELSE st.text

\* impl Display for GpsTime
GpsTimeDisplay(t) == Pad2(t.h) \o <<COLON>> \o Pad2(t.m) \o <<COLON>> \o Pad2(t.s)

\* the fields of a clock value
Clock(t) == [h |-> t.h, m |-> t.m, s |-> t.s, cs |-> t.cs]

NoTelemetry ==
    [ok |-> FALSE, team_id |-> 0, mission_time |-> Clock(ClockErr), packet_count |-> <<>>,
     mode |-> "", state |-> StateOther(<<>>), altitude |-> F64(FALSE, <<48>>, <<>>),
     hs_deployed |-> "", pc_deployed |-> "", mast_raised |-> "",
     temperature |-> F64(FALSE, <<48>>, <<>>), voltage |-> F64(FALSE, <<48>>, <<>>),
     gps_time |-> Clock(ClockErr), gps_altitude |-> F64(FALSE, <<48>>, <<>>),
     gps_latitude |-> F64(FALSE, <<48>>, <<>>), gps_longitude |-> F64(FALSE, <<48>>, <<>>),
     gps_sats |-> 0, tilt_x |-> F64(FALSE, <<48>>, <<>>), tilt_y |-> F64(FALSE, <<48>>, <<>>),
     cmd_echo |-> <<>>]

\* the record of the nineteen fields, each parsed by the FromStr of its type
TelemetryOfFields(f) ==
    IF ~TelemetryFieldsOk(f) THEN NoTelemetry
    ELSE [ok |-> TRUE,
          team_id |-> ParseUnsigned(f[1], U16_MAX),
          mission_time |-> Clock(MissionTimeFromStr(f[2])),
          packet_count |-> ParseU32(f[3]),
          mode |-> LetterEnum(f[4], 70, "Flight", "Simulation"),
          state |-> StateFromStr(f[5]),
          altitude |-> F64FromStr(f[6]),
          hs_deployed |-> LetterEnum(f[7], 80, "Deployed", "NotDeployed"),
          pc_deployed |-> LetterEnum(f[8], 67, "Deployed", "NotDeployed"),
          mast_raised |-> LetterEnum(f[9], 77, "Raised", "NotRaised"),
          temperature |-> F64FromStr(f[10]),
          voltage |-> F64FromStr(f[11]),
          gps_time |-> Clock(GpsTimeFromStr(f[12])),
          gps_altitude |-> F64FromStr(f[13]),
          gps_latitude |-> F64FromStr(f[14]),
          gps_longitude |-> F64FromStr(f[15]),
          gps_sats |-> ParseUnsigned(f[16], U8_MAX),
          tilt_x |-> F64FromStr(f[17]),
          tilt_y |-> F64FromStr(f[18]),
          cmd_echo |-> f[19]]

\* Telemetry::from_str
TelemetryFromStr(s) == TelemetryOfFields(SplitFields(s, TELEMETRY_FIELDS - 1))

\* the texts with commas between them
RECURSIVE JoinFields(_, _)
JoinFields(f, n) == IF n = 1 THEN f[1] ELSE JoinFields(f, n - 1) \o <<COMMA>> \o f[n]

\* the texts Display writes for the fields of a record; a set for each f64
TelemetryDisplayFields(r) ==
    <<{Dec(r.team_id)}, {MissionTimeDisplay(r.mission_time)}, {r.packet_count},
      {EnumLetter(r.mode, "Flight", 70, 83)}, {StateDisplay(r.state)},
      F64Display(r.altitude, 1),
      {EnumLetter(r.hs_deployed, "Deployed", 80, 78)},
      {EnumLetter(r.pc_deployed, "Deployed", 67, 78)},
      {EnumLetter(r.mast_raised, "Raised", 77, 78)},
      F64Display(r.temperature, 1), F64Display(r.voltage, 1),
      {GpsTimeDisplay(r.gps_time)},
      F64Display(r.gps_altitude, 1), F64Display(r.gps_latitude, 4),
      F64Display(r.gps_longitude, 4), {Dec(r.gps_sats)},
      F64Display(r.tilt_x, 2), F64Display(r.tilt_y, 2), {r.cmd_echo}>>

\* the lines made of one text of each of the first n sets, commas between
RECURSIVE Lines(_, _)
Lines(sets, n) ==
    IF n = 1 THEN sets[1]
    ELSE {l \o <<COMMA>> \o t : l \in Lines(sets, n - 1), t \in sets[n]}

\* impl Display for Telemetry: the lines it can write
TelemetryDisplay(r) == Lines(TelemetryDisplayFields(r), TELEMETRY_FIELDS)

\* the fields of the line of the tests
SampleFields == SplitFields(TELEMETRY_SAMPLE, TELEMETRY_FIELDS - 1)

\* the record of the tests
SampleRecord ==
    [ok |-> TRUE, team_id |-> 1047, mission_time |-> [h |-> 15, m |-> 12, s |-> 2, cs |-> 99],
     packet_count |-> <<49, 50, 51>>, mode |-> "Flight", state |-> StateYeeted,
     altitude |-> F64(FALSE, <<51, 53, 54>>, <<50>>), hs_deployed |-> "Deployed",
     pc_deployed |-> "Deployed", mast_raised |-> "NotRaised",
     temperature |-> F64(FALSE, <<51, 55>>, <<56>>), voltage |-> F64(FALSE, <<53>>, <<49>>),
     gps_time |-> [h |-> 15, m |-> 12, s |-> 3, cs |-> NO_CS],
     gps_altitude |-> F64(FALSE, <<49, 54, 50, 51>>, <<51>>),
     gps_latitude |-> F64(FALSE, <<51, 55>>, <<50, 50, 52, 57>>),
     gps_longitude |-> F64(TRUE, <<56, 48>>, <<52, 50, 52, 57>>), gps_sats |-> 14,
     tilt_x |-> F64(FALSE, <<50>>, <<51, 54>>), tilt_y |-> F64(TRUE, <<53>>, <<52, 57>>),
     cmd_echo |-> <<67, 88, 79, 78>>]

\* other texts for each field: in the form Display writes, in other forms
\* FromStr accepts, and texts it rejects
FieldTexts ==
    <<{<<48>>, <<54, 53, 53, 51, 53>>, <<54, 53, 53, 51, 54>>, <<48, 49, 48, 52, 55>>, <<43, 49, 48, 52, 55>>, <<>>},
      {<<48, 48, 58, 48, 48, 58, 48, 48, 46, 48, 48>>, <<50, 51, 58, 53, 57, 58, 53, 57>>, <<55, 58, 48, 48, 58, 48, 48>>, <<49, 53, 58, 49, 50, 58, 48, 50, 46, 50, 53, 53>>, <<49, 53, 58, 49, 50, 58, 48, 50, 46, 57>>, <<50, 52, 58, 48, 48, 58, 48, 48, 46, 48, 48>>, <<49, 53, 58, 49, 50, 58, 48, 50, 46, 49, 48, 48>>},
      {<<48>>, <<52, 50, 57, 52, 57, 54, 55, 50, 57, 53>>, <<52, 50, 57, 52, 57, 54, 55, 50, 57, 54>>, <<48, 48, 55>>},
      {<<83>>, <<88>>},
      {<<76, 65, 85, 78, 67, 72, 95, 87, 65, 73, 84>>, <<>>, <<121, 101, 101, 116, 101, 100>>},
      {<<45, 48, 46, 53>>, <<48, 46, 48>>, <<51, 53, 54, 46, 50, 55>>, <<51, 53, 54, 46, 50, 53>>, <<51, 53, 54>>, <<49, 101, 50>>, <<105, 110, 102>>, <<43, 53, 46, 49>>, <<48, 53, 46, 49>>, <<46, 53>>, <<45, 48, 46, 48>>, <<97, 98, 99>>},
      {<<78>>, <<80, 32>>},
      {<<78>>},
      {<<77>>},
      {<<45, 51, 46, 48>>, <<51, 55, 46, 56, 53>>},
      {<<49, 50, 46, 48>>, <<53, 46, 49, 48>>},
      {<<48, 48, 58, 48, 48, 58, 48, 48>>, <<50, 51, 58, 53, 57, 58, 53, 57>>, <<49, 53, 58, 49, 50, 58, 48, 51, 46, 48, 48>>, <<53, 58, 49, 58, 51>>},
      {<<48, 46, 48>>, <<49, 54, 50, 51, 46, 51, 52>>},
      {<<45, 48, 46, 48, 48, 48, 49>>, <<51, 55, 46, 50, 50, 52, 57, 48>>, <<51, 55, 46, 50, 50, 52>>},
      {<<56, 48, 46, 52, 50, 52, 57>>, <<45, 56, 48, 46, 52, 50, 52, 57, 49>>},
      {<<48>>, <<50, 53, 53>>, <<50, 53, 54>>, <<48, 49, 52>>},
      {<<50, 46, 51>>, <<50, 46, 51, 54, 55>>, <<48, 46, 48, 48>>},
      {<<45, 53, 46, 52>>, <<53, 46, 52, 57>>},
      {<<>>, <<67, 88, 44, 79, 78>>, <<67, 88, 79, 78, 44, 49, 48, 52, 55>>}>>

\* the lines parsed: the record of the tests with one field written otherwise
TelemetryLines ==
    {SampleFields} \cup
    {[SampleFields EXCEPT ![i] = t] : <<i, t>> \in UNION {{<<j, u>> : u \in FieldTexts[j]} : j \in 1..TELEMETRY_FIELDS}}

\* the records formatted: the record of the tests with one field set
\* otherwise, to values of the field's range and precision and to others
TelemetryRecords ==
    {SampleRecord}
      \cup {[SampleRecord EXCEPT !.team_id = v] : v \in {0, U16_MAX}}
      \cup {[SampleRecord EXCEPT !.mission_time = [h |-> t[1], m |-> t[2], s |-> t[3], cs |-> t[4]]] :
                t \in {<<0, 0, 0, 0>>, <<23, 59, 59, NO_CS>>, <<1, 2, 3, 4>>, <<15, 12, 2, 150>>}}
      \cup {[SampleRecord EXCEPT !.packet_count = v] : v \in {<<48>>, U32_MAX_DIGITS}}
      \cup {[SampleRecord EXCEPT !.mode = "Simulation"]}
      \cup {[SampleRecord EXCEPT !.state = StateOther(t)] :
                t \in {<<76, 65, 78, 68, 69, 68>>, <<>>, YEETED, <<65, COMMA, 66>>}}
      \cup {[SampleRecord EXCEPT !.altitude = F64FromStr(t)] :
                t \in {<<45, 48, 46, 53>>, <<48>>, <<49, 48, 48, 48>>, <<51, 53, 54, 46, 50, 55>>,
                       <<51, 53, 54, 46, 50, 53>>, <<45, 48>>, <<110, 97, 110>>}}
      \cup {[SampleRecord EXCEPT !.hs_deployed = "NotDeployed"],
            [SampleRecord EXCEPT !.pc_deployed = "NotDeployed"],
            [SampleRecord EXCEPT !.mast_raised = "Raised"]}
      \cup {[SampleRecord EXCEPT !.voltage = F64FromStr(t)] :
                t \in {<<49, 50>>, <<53, 46, 49, 50>>}}
      \cup {[SampleRecord EXCEPT !.gps_time = [h |-> t[1], m |-> t[2], s |-> t[3], cs |-> NO_CS]] :
                t \in {<<0, 0, 0>>, <<23, 59, 59>>}}
      \cup {[SampleRecord EXCEPT !.gps_latitude = F64FromStr(t)] :
                t \in {<<45, 48, 46, 48, 48, 48, 49>>, <<51, 55, 46, 50, 50, 52, 57, 49>>}}
      \cup {[SampleRecord EXCEPT !.gps_sats = v] : v \in {0, U8_MAX}}
      \cup {[SampleRecord EXCEPT !.tilt_x = F64FromStr(t)] :
                t \in {<<50, 46, 51>>, <<50, 46, 51, 54, 55>>}}
      \cup {[SampleRecord EXCEPT !.cmd_echo = t] : t \in {<<>>, <<67, 88, COMMA, 79, 78>>}}

NoFields == [i \in 1..TELEMETRY_FIELDS |-> <<>>]

TelemetryInit ==
    /\ \/ /\ fn_pc = "format"
          /\ \E r \in TelemetryRecords : fn_in = [rec |-> r, parts |-> NoFields, line |-> <<>>]
       \/ /\ fn_pc = "parse"
          /\ \E f \in TelemetryLines :
                fn_in = [rec |-> NoTelemetry, parts |-> f, line |-> JoinFields(f, TELEMETRY_FIELDS)]
    /\ fn_out = [rec |-> NoTelemetry, line |-> <<>>]

\* format!("{telem}") of a record
TelemetryFormat ==
    /\ fn_pc = "format"
    /\ \E l \in TelemetryDisplay(fn_in.rec) : fn_out' = [fn_out EXCEPT !.line = l]
    /\ fn_pc' = "formatted"
    /\ UNCHANGED fn_in
    /\ UNCHANGED <<cx_vars, ack_vars, ledger_vars, reader_vars, gen_vars, sim_vars>>

\* the formatted line parsed
TelemetryParseBack ==
    /\ fn_pc = "formatted"
    /\ fn_out' = [fn_out EXCEPT !.rec = TelemetryFromStr(fn_out.line)]
    /\ fn_pc' = "parsed_back"
    /\ UNCHANGED fn_in
    /\ UNCHANGED <<cx_vars, ack_vars, ledger_vars, reader_vars, gen_vars, sim_vars>>

\* s.parse::<Telemetry>() of a line
TelemetryParse ==
    /\ fn_pc = "parse"
    /\ fn_out' = [fn_out EXCEPT !.rec = TelemetryFromStr(fn_in.line)]
    /\ fn_pc' = "parsed"
    /\ UNCHANGED fn_in
    /\ UNCHANGED <<cx_vars, ack_vars, ledger_vars, reader_vars, gen_vars, sim_vars>>

\* the parsed record formatted
TelemetryFormatBack ==
    /\ fn_pc = "parsed"
    /\ fn_out.rec.ok
    /\ \E l \in TelemetryDisplay(fn_out.rec) : fn_out' = [fn_out EXCEPT !.line = l]
    /\ fn_pc' = "formatted_back"
    /\ UNCHANGED fn_in
    /\ UNCHANGED <<cx_vars, ack_vars, ledger_vars, reader_vars, gen_vars, sim_vars>>

InitTelemetry == TelemetryInit /\ CxIdle /\ AckIdle /\ LedgerIdle /\ ReaderIdle /\ GenIdle /\ SimIdle

NextTelemetry == TelemetryFormat \/ TelemetryParseBack \/ TelemetryParse \/ TelemetryFormatBack

SpecTelemetry == InitTelemetry /\ [][NextTelemetry]_vars

\* a number written in digits without leading zeros
PlainNumber(t) == AllDigits(t) /\ (Len(t) = 1 \/ t[1] # 48)

\* hh:mm:ss in two digits each and in range
PlainClock(t) ==
    /\ Len(t) = 8
    /\ t[3] = COLON /\ t[6] = COLON
    /\ \A i \in {1, 2, 4, 5, 7, 8} : IsDigit(t[i])
    /\ Num(SubSeq(t, 1, 2)) < 24 /\ Num(SubSeq(t, 4, 5)) < 60 /\ Num(SubSeq(t, 7, 8)) < 60

\* hh:mm:ss or hh:mm:ss.cc
PlainMissionTime(t) ==
    \/ PlainClock(t)
    \/ /\ Len(t) = 11
       /\ PlainClock(SubSeq(t, 1, 8))
       /\ t[9] = DOT /\ IsDigit(t[10]) /\ IsDigit(t[11])

\* a number written with p decimal places, a minus sign in front if negative
PlainDecimal(t, p) ==
    \E n \in 1..Len(t) :
        /\ t[n] = DOT
        /\ Len(t) - n = p
        /\ AllDigits(SubSeq(t, n + 1, Len(t)))
        /\ \/ PlainNumber(SubSeq(t, 1, n - 1))
           \/ t[1] = MINUS /\ PlainNumber(SubSeq(t, 2, n - 1))

\* a line as the format documents it: numbers in their range without sign
\* or leading zeros, clocks with two digits per part, the letters of the
\* codes, measurements at the decimal places of their field
WellFormed(f) ==
    /\ PlainNumber(f[1]) /\ Len(f[1]) <= 5 /\ Num(f[1]) <= U16_MAX
    /\ PlainMissionTime(f[2])
    /\ PlainNumber(f[3])
    /\ Len(f[3]) < Len(U32_MAX_DIGITS)
            \/ (Len(f[3]) = Len(U32_MAX_DIGITS) /\ DigitsLeq(f[3], U32_MAX_DIGITS))
    /\ f[4] \in {<<70>>, <<83>>}
    /\ PlainDecimal(f[6], 1)
    /\ f[7] \in {<<80>>, <<78>>}
    /\ f[8] \in {<<67>>, <<78>>}
    /\ f[9] \in {<<77>>, <<78>>}
    /\ PlainDecimal(f[10], 1)
    /\ PlainDecimal(f[11], 1)
    /\ PlainClock(f[12])
    /\ PlainDecimal(f[13], 1)
    /\ PlainDecimal(f[14], 4)
    /\ PlainDecimal(f[15], 4)
    /\ PlainNumber(f[16]) /\ Len(f[16]) <= 3 /\ Num(f[16]) <= U8_MAX
    /\ PlainDecimal(f[17], 2)
    /\ PlainDecimal(f[18], 2)

\* a measurement of at most p decimal places
AtPrecision(v, p) == v.int \notin {F64_INF, F64_NAN} /\ Len(v.frac) <= p

\* a record of valid field values: clocks in range, measurements at the
\* decimal places of their field, a state that is the known one or the text
\* of another, which has no comma in it
ValidRecord(r) ==
    /\ r.mission_time.h < 24 /\ r.mission_time.m < 60 /\ r.mission_time.s < 60
    /\ r.mission_time.cs < 100 \/ r.mission_time.cs = NO_CS
    /\ r.gps_time.h < 24 /\ r.gps_time.m < 60 /\ r.gps_time.s < 60
    /\ r.state.variant = "Other" => r.state.text # YEETED /\ IndexOf(r.state.text, COMMA) = 0
    /\ AtPrecision(r.altitude, 1) /\ AtPrecision(r.temperature, 1) /\ AtPrecision(r.voltage, 1)
    /\ AtPrecision(r.gps_altitude, 1) /\ AtPrecision(r.gps_latitude, 4)
    /\ AtPrecision(r.gps_longitude, 4) /\ AtPrecision(r.tilt_x, 2) /\ AtPrecision(r.tilt_y, 2)

C28_LineBack ==
    /\ fn_pc = "formatted_back"
    /\ fn_in.line = TELEMETRY_SAMPLE
    /\ fn_out.line = TELEMETRY_SAMPLE

----------------------------------------------------------------------------
(* Specification of recv_ack on its own                                     *)

InitAck == AckInit /\ CxIdle /\ ReaderIdle /\ GenIdle /\ FnIdle /\ SimIdle

NextAck == AckApply

SpecAck == InitAck /\ [][NextAck]_vars

\* the Sent entries of the ledger before the status whose frame id is the
\* status's
AckMatches == SentWith(ack_prev, ack_in.frame_id)

\* of these, the one submitted last
AckNewest == CHOOSE k \in AckMatches : \A j \in AckMatches : ack_prev[j].sub <= ack_prev[k].sub

\* C2: a Success status with frame id i moves exactly one entry to SentStatus,
\* the most recently submitted Sent entry whose frame id is i; every other
\* entry, an older Sent entry with the same frame id included, is unchanged,
\* and when no Sent entry has frame id i the whole ledger is unchanged.
C2_AckNewestOnly ==
    (ack_pc = "applied" /\ ack_in.status = SUCCESS) =>
        IF AckMatches = {}
        THEN command_history = ack_prev
        ELSE /\ DOMAIN command_history = DOMAIN ack_prev
             /\ command_history[AckNewest] =
                    [ack_prev[AckNewest] EXCEPT !.status = SentStatus(SUCCESS)]
             /\ \A k \in DOMAIN ack_prev \ {AckNewest} : command_history[k] = ack_prev[k]

\* two Sent entries shared the frame id of a Success status: the newer is
\* acknowledged and the older is still Sent
C2_OlderStillSent ==
    /\ ack_pc = "applied"
    /\ ack_in.status = SUCCESS
    /\ \E j, k \in AckMatches :
        /\ j < k
        /\ command_history[j].status = Sent(ack_in.frame_id)
        /\ command_history[k].status = SentStatus(SUCCESS)

\* C10: a status that is not Success and whose frame id is that of a Sent
\* entry is recorded on the entry: it becomes SentStatus with that status.
C10_NonSuccessRecorded ==
    (ack_pc = "applied" /\ ack_in.status # SUCCESS /\ AckMatches # {}) =>
        \E k \in AckMatches : command_history[k].status = SentStatus(ack_in.status)

----------------------------------------------------------------------------
(* radio_thread with a full buffer                                          *)

\* offsets in the buffer at which a start byte is put: near the front, and
\* around and inside the last 256 bytes
FullStarts == {5, BUFSIZ - TAIL_WINDOW - 1, BUFSIZ - TAIL_WINDOW, BUFSIZ - TAIL_WINDOW + 1,
               BUFSIZ - 96, BUFSIZ - 16}

\* BUFSIZ bytes that are no frame: 0xFF with start bytes at the offsets ps,
\* and the bytes of frame at the end
FullBuffer(ps, frame) ==
    [i \in 1..BUFSIZ |->
        IF i > BUFSIZ - Len(frame) THEN frame[i - (BUFSIZ - Len(frame))]
        ELSE IF (i - 1) \in ps THEN START_DELIMITER
        ELSE 255]

\* what the radio sends: bytes that fill the buffer, and more after them
FullStreams ==
    {FullBuffer(ps, frame) \o more :
        ps \in SUBSET FullStarts, frame \in {<<>>, serialise(RdStatus)},
        more \in {<<>>, <<255>>, serialise(RdOther)}}

FullInit ==
    /\ stream_parts = NoParts
    /\ stream \in FullStreams
    /\ rd_pos = 0
    /\ buf = <<>>
    /\ write_idx = 0
    /\ rt_pc = "read"
    /\ rt_exit = "none"
    /\ packet_chan = <<>>
    /\ CURR_RADIO = radio_num
    /\ rx_alive = TRUE

\* the smaller of two numbers
Min(a, b) == IF a < b THEN a ELSE b

\* the read under the lock returned Ok(n) with n every byte that waits and
\* fits: bytes_to_read() of them up to BUFSIZ
RT_ReadFull ==
    /\ rt_pc = "read"
    /\ \E n \in {Min(Len(stream) - rd_pos, BUFSIZ - write_idx)} :
        /\ buf' = buf \o SubSeq(stream, rd_pos + 1, rd_pos + n)
        /\ write_idx' = write_idx + n
        /\ rd_pos' = rd_pos + n
    /\ rt_pc' = "scan"
    /\ UNCHANGED <<stream, stream_parts, rt_exit, packet_chan, CURR_RADIO, rx_alive>>
    /\ UNCHANGED <<fn_vars, cx_vars, ack_vars, ledger_vars, gen_vars, sim_vars>>

InitFull == FullInit /\ CxIdle /\ AckIdle /\ LedgerIdle /\ GenIdle /\ FnIdle /\ SimIdle

NextFull == RT_Check \/ RT_ReadFull \/ RT_Scan

SpecFull == InitFull /\ [][NextFull]_vars

\* a start byte lies in the last 256 bytes of the full buffer b
StartInTail(b) == \E i \in (BUFSIZ - TAIL_WINDOW)..(BUFSIZ - 1) : b[i + 1] = START_DELIMITER

\* the offset in the buffer of the last start byte in its last 256 bytes
LastStartInTail(b) ==
    CHOOSE i \in (BUFSIZ - TAIL_WINDOW)..(BUFSIZ - 1) :
        /\ b[i + 1] = START_DELIMITER
        /\ \A k \in (i + 1)..(BUFSIZ - 1) : b[k + 1] # START_DELIMITER

\* a scan pass over the full buffer that went on to the next turn of the loop
FullPass == rt_pc = "scan" /\ write_idx = BUFSIZ /\ rt_pc' = "check"

\* the bytes from offset marker on are what the pass leaves in the buffer
LeftFrom(marker) == write_idx' = BUFSIZ - marker /\ buf' = Slice(buf, marker, BUFSIZ)

\* C29: when the buffer is completely full at the end of a scan pass, the
\* parse marker is the offset in the buffer of the last start byte within
\* the final 256 bytes, or the end of the buffer when there is none there;
\* the bytes from the marker on are what the compaction keeps.
C29_FullBufferMarker ==
    [][FullPass => LeftFrom(IF StartInTail(buf) THEN LastStartInTail(buf) ELSE BUFSIZ)]_vars

\* the marker is the offset of that start byte inside the last 256 bytes
C29_FullBufferMarkerInWindow ==
    [][FullPass => LeftFrom(IF StartInTail(buf)
                            THEN LastStartInTail(buf) - (BUFSIZ - TAIL_WINDOW)
                            ELSE BUFSIZ)]_vars

\* C30: whenever the write cursor equals the capacity during a scan pass,
\* it is strictly below the capacity after that pass's compaction.
C30_FullBufferProgress == [][FullPass => write_idx' < BUFSIZ]_vars

\* the same for the buffers whose last start byte in the last 256 bytes is
\* not the first of those bytes
C30_FullBufferProgressPastWindowStart ==
    [][(FullPass /\ ~(StartInTail(buf) /\ LastStartInTail(buf) = BUFSIZ - TAIL_WINDOW))
            => write_idx' < BUFSIZ]_vars

\* the buffer is still full after a scan pass
C30_StillFull == rt_pc = "check" /\ write_idx = BUFSIZ

----------------------------------------------------------------------------
(* radio_thread: where the scan pass leaves the marker                      *)

\* the number of bytes decode has taken from the slice when it returns Ok:
\* the start byte, the length, the 0x31 of the edge case, the frame type, the
\* frame id, the data and the checksum
FrameWireLen(bytes) == DecodeHeaderLen(bytes) + 2 + DecodeDataLen(DecodeLen(bytes)) + 1

\* the candidates of the buffer b at which the conversion gives a packet
FrameStarts(b) ==
    {c \in 0..(Len(b) - 1) :
        /\ b[c + 1] = START_DELIMITER
        /\ ReceivedPacketFrom(Slice(b, c, Len(b))).kind \notin {"Invalid", "Panic"}}

\* a scan pass that went on to the next turn of the loop over a buffer that
\* is not full and holds a packet at one candidate only
OneFramePass ==
    /\ rt_pc = "scan" /\ rt_pc' = "check"
    /\ write_idx < BUFSIZ
    /\ Cardinality(FrameStarts(buf)) = 1

\* C31: after a frame decodes at candidate offset start, the parse marker
\* is start plus the number of bytes the frame occupies on the wire, so the
\* pass leaves in the buffer exactly the bytes after the frame.
C31_MarkerPastFrame ==
    [][OneFramePass =>
        \A start \in FrameStarts(buf) :
            buf' = Slice(buf, start + FrameWireLen(Slice(buf, start, Len(buf))), Len(buf))]_vars

\* the marker is start plus the length of the data plus 5: the pass leaves
\* the last byte of the frame in the buffer
C31_MarkerOneShort ==
    [][OneFramePass =>
        \A start \in FrameStarts(buf) :
            buf' = Slice(buf, start + FrameWireLen(Slice(buf, start, Len(buf))) - 1, Len(buf))]_vars

----------------------------------------------------------------------------
(* radio_thread: what the packets sent so far carry                         *)

\* the bytes of the stream a sent packet carries: the bytes of an Invalid,
\* the frame of every other packet
CarriedBytes(received) ==
    IF received.kind = "Invalid" THEN Len(received.raw) ELSE Len(serialise(received.packet))

RECURSIVE CarriedUpTo(_, _)
CarriedUpTo(chan, n) ==
    IF n = 0 THEN 0 ELSE CarriedUpTo(chan, n - 1) + CarriedBytes(chan[n])

\* the number of packets sent that are not Invalid
FramesSent(chan) == Cardinality({i \in 1..Len(chan) : chan[i].kind # "Invalid"})

\* the bytes the thread has read so far
BytesRead == SubSeq(stream, 1, rd_pos)

\* no more packets that are not Invalid were sent than the bytes read hold
\* frames
FramesOnce == FramesSent(packet_chan) <= Cardinality(FrameStarts(BytesRead))

\* the packets sent carry no more bytes than were read
BytesOnce == CarriedUpTo(packet_chan, Len(packet_chan)) <= rd_pos

\* C32: each frame in the incoming bytes is sent as a packet at most once
\* and each byte read is carried by at most one packet sent, so the packets
\* sent hold no more frames and no more bytes than the bytes read.
C32_EmittedOnce == FramesOnce /\ BytesOnce

\* a pass over a full buffer has sent the frame at its end a second time
C32_FrameSentTwice == ~FramesOnce

\* the packets sent carry more bytes than were read
C32_ByteSentTwice == ~BytesOnce

----------------------------------------------------------------------------
(* radio_thread: the indices of a scan pass                                 *)

\* parsed_upto after the packet at candidate start of the buffer b was sent
MarkerAfter(b, start) ==
    start + Len(ReceivedPacketFrom(Slice(b, start, Len(b))).packet.data) + PACKET_OVERHEAD

\* the candidates of the buffer b at which the conversion panics
PanicStarts(b) ==
    {c \in 0..(Len(b) - 1) :
        /\ b[c + 1] = START_DELIMITER
        /\ ReceivedPacketFrom(Slice(b, c, Len(b))).kind = "Panic"}

\* C33: the write cursor is within 0..BUFSIZ; in a scan pass the marker
\* left by a packet is at or before every later candidate that gives a
\* packet, so the marker never decreases and every gap buf[marker..start]
\* is in range; and the thread never dies of an index out of range.
C33_IndicesInRange ==
    /\ write_idx \in 0..BUFSIZ
    /\ write_idx = Len(buf)
    /\ rt_pc = "scan" =>
          \A c1, c2 \in FrameStarts(buf) : c1 < c2 => MarkerAfter(buf, c1) <= c2
    /\ rt_pc = "panicked" => PanicStarts(buf) # {}

\* the thread has panicked in a pass in which no conversion panics: the gap
\* buf[parsed_upto..start] had its start past its end
C33_GapSliceOutOfRange == rt_pc = "panicked" /\ PanicStarts(buf) = {}

\* the write cursor is within the buffer in every state
C33_WriteCursorInRange == write_idx \in 0..BUFSIZ /\ write_idx = Len(buf)

----------------------------------------------------------------------------
(* radio_thread: a frame that arrives in more than one read                 *)

\* a scan pass over a buffer, not full, in which no candidate gives a packet
FailedPass ==
    /\ rt_pc = "scan"
    /\ write_idx < BUFSIZ
    /\ FrameStarts(buf) = {} /\ PanicStarts(buf) = {}

\* a read that brings the rest of a frame: the buffer held the start of the
\* frame, kept by the passes before, and holds exactly the frame now
CompletingRead ==
    /\ rt_pc = "read" /\ rt_pc' = "scan"
    /\ buf # <<>> /\ buf[1] = START_DELIMITER
    /\ FrameStarts(buf) = {} /\ PanicStarts(buf) = {}
    /\ Len(buf') > Len(buf)
    /\ 0 \in FrameStarts(buf')
    /\ Len(buf') = FrameWireLen(buf')
    /\ rx_alive

\* C34: a pass in which decoding fails at every candidate sends nothing and
\* keeps the bytes; when a later read brings the rest of the frame, the
\* pass after it sends the frame as its packet and leaves none of its bytes
\* behind to be sent as Invalid.
C34_FailedCandidateCompleted ==
    [][/\ FailedPass => (packet_chan' = packet_chan /\ buf' = buf)
       /\ CompletingRead =>
            /\ ScanPass(buf', rx_alive).sent = <<ReceivedPacketFrom(buf')>>
            /\ ScanPass(buf', rx_alive).buf = <<>>]_vars

\* a pass in which decoding fails at every candidate sends nothing and keeps
\* the bytes
C34_FailedCandidateSilent ==
    [][FailedPass => (packet_chan' = packet_chan /\ buf' = buf)]_vars

\* the completed frame, when no shorter frame decodes inside it, is sent as
\* its packet, and its last byte stays in the buffer
C34_CompletedFrameSent ==
    [][(CompletingRead /\ FrameStarts(buf') = {0}) =>
            /\ ScanPass(buf', rx_alive).sent = <<ReceivedPacketFrom(buf')>>
            /\ ScanPass(buf', rx_alive).buf = <<buf'[Len(buf')]>>]_vars

\* the frame's last byte has been sent as Invalid after the frame
C34_FrameByteInvalid ==
    /\ Len(packet_chan) = 2
    /\ packet_chan[1].kind # "Invalid"
    /\ packet_chan[2] = Invalid(<<stream[Len(serialise(packet_chan[1].packet))]>>)
    /\ rt_exit = "superseded"

----------------------------------------------------------------------------
(* handle_commands against radio_thread, for as long as both run            *)

\* the commands submitted while the link is watched
MaxSendCmds == 1

\* the link has been opened: open_radio_connection at time 0
SendInit ==
    /\ command_history = <<>>
    /\ cmd_receiver = <<>>
    /\ radio = "open"
    /\ radio_last_sent = 0
    /\ FRAME_ID_COUNTER = 1
    /\ radio_lock = {}
    /\ now = 0
    /\ utc = 0
    /\ hc_pc = "idle"
    /\ hc_cursor = -1
    /\ hc_frame_id = 0
    /\ transport_out = <<>>
    /\ written = <<>>
    /\ opened_at = 0
    /\ nsub = 0
    /\ nalloc = 0

\* handle_commands, the for loop at its next Unsent entry, in every call
\* however many there have been: the frame id is allocated, then try_lock
HC_NextTry ==
    /\ hc_pc = "loop"
    /\ LET k == NextUnsent(command_history, hc_cursor)
           a == AllocFrameId(FRAME_ID_COUNTER)
       IN IF k = -1
          THEN /\ hc_pc' = "idle"
               /\ UNCHANGED <<hc_cursor, hc_frame_id, FRAME_ID_COUNTER, radio_lock>>
          ELSE /\ hc_cursor' = k
               /\ hc_frame_id' = a.frame_id
               /\ FRAME_ID_COUNTER' = a.counter
               /\ IF FairMutexFree(radio_lock)
                  THEN radio_lock' = radio_lock \cup {"sender"} /\ hc_pc' = "locked"
                  ELSE radio_lock' = radio_lock /\ hc_pc' = "loop"
    /\ UNCHANGED <<command_history, cmd_receiver, radio, radio_last_sent, now, utc,
                   transport_out, written, nsub, nalloc>>
    /\ UNCHANGED opened_at
    /\ UNCHANGED <<fn_vars, cx_vars, ack_vars, reader_vars, gen_vars, sim_vars>>

\* try_lock returned the guard
HC_Locked == HC_NextTry /\ hc_pc' = "locked"

\* the monotonic clock moves on; the readings after the 100 ms are over are
\* all alike to handle_commands
WaitTick ==
    /\ RateLimited(now, radio_last_sent)
    /\ now' = now + RATE_LIMIT_MS \div 2
    /\ UNCHANGED <<command_history, cmd_receiver, radio, radio_last_sent, FRAME_ID_COUNTER,
                   radio_lock, utc, hc_pc, hc_cursor, hc_frame_id, transport_out, written,
                   nsub, nalloc>>
    /\ UNCHANGED opened_at
    /\ UNCHANGED <<fn_vars, cx_vars, ack_vars, reader_vars, gen_vars, sim_vars>>

\* cmd_sender.send(cmd), for the commands watched
SubmitWatched == nsub < MaxSendCmds /\ SendCommand

InitSend == SendInit /\ CxIdle /\ AckIdle /\ ReaderIdle /\ GenIdle /\ FnIdle /\ SimIdle

NextSend ==
    \/ SubmitWatched
    \/ HC_Recv
    \/ HC_RecvDone
    \/ HC_NextTry
    \/ HC_RateLimited
    \/ HC_WriteFailed
    \/ HC_WriteOk
    \/ ReaderLock
    \/ ReaderUnlock
    \/ WaitTick
    \/ UtcTick

\* update() is called again and again and every call runs to its end; the
\* reader thread keeps taking the lock and dropping it; the clock moves on;
\* a write that is tried again and again succeeds in the end; a try_lock
\* that could succeed again and again does so in the end
SendFairness ==
    /\ WF_vars(HC_Recv) /\ WF_vars(HC_RecvDone) /\ WF_vars(HC_NextTry)
    /\ WF_vars(HC_RateLimited) /\ WF_vars(HC_WriteFailed \/ HC_WriteOk)
    /\ WF_vars(ReaderLock) /\ WF_vars(ReaderUnlock)
    /\ WF_vars(WaitTick)
    /\ SF_vars(HC_WriteOk)
    /\ SF_vars(HC_Locked)

SpecSend == InitSend /\ [][NextSend]_vars /\ SendFairness

\* command number s has been sent down cmd_sender
Submitted(s) == nsub >= s

\* the frame of command number s has been written to the serial port
WrittenOut(s) == \E i \in 1..Len(written) : written[i].sub = s

\* handle_commands is at try_lock for an Unsent entry while the lock is free
TryOnFreeLock ==
    /\ hc_pc = "loop"
    /\ NextUnsent(command_history, hc_cursor) # -1
    /\ FairMutexFree(radio_lock)

\* C35: while the link stays open and writes succeed in the end, every
\* command submitted is in the end written to the serial port (and its entry
\* Sent), whatever the reader thread and the rate limit do.
C35_EverySubmittedSent == \A s \in 1..MaxSendCmds : Submitted(s) ~> WrittenOut(s)

\* every command submitted is written in the end, provided try_lock meets a
\* free lock again and again
C35_SentWhenLockMet ==
    []<>TryOnFreeLock => \A s \in 1..MaxSendCmds : Submitted(s) ~> WrittenOut(s)

\* a command is Unsent while the reader holds the lock at this try_lock
C35_TryLockRefused ==
    /\ hc_pc = "loop"
    /\ NextUnsent(command_history, hc_cursor) # -1
    /\ "reader" \in radio_lock

----------------------------------------------------------------------------
(* recv_telem and close_radio: the packets taken from the channel           *)

\* the most packets the radio thread sends while the consumer is watched
MaxPackets == 3

\* packets the radio thread sends: delivery statuses and a packet of
\* another type
StatusPacket(frame_id, status) ==
    Received("Status", XbeePacket(TX_STATUS_TYPE, frame_id, <<status>>),
             [frame_id |-> frame_id, status |-> status])

ConsumePackets ==
    {StatusPacket(1, SUCCESS), StatusPacket(2, SUCCESS), StatusPacket(1, 1),
     Received("Unrecognised", RdOther, NoStatus)}

\* ledgers of two commands
ConsumeLedgers ==
    {[k \in 1..2 |-> Entry(<<67>>, st[k], k)] : st \in [1..2 -> {Unsent, Sent(1), Sent(2)}]}

\* the link is open, the radio thread has packets to send (fn_in), none was
\* taken yet (fn_out is packet_log)
ConsumeInit ==
    /\ command_history \in ConsumeLedgers
    /\ cmd_receiver = <<>>
    /\ radio = "open"
    /\ radio_last_sent = 0
    /\ FRAME_ID_COUNTER = 1
    /\ radio_lock = {}
    /\ now = 0
    /\ utc = 0
    /\ hc_pc = "idle"
    /\ hc_cursor = -1
    /\ hc_frame_id = 0
    /\ transport_out = <<>>
    /\ written = <<>>
    /\ opened_at = 0
    /\ nsub = 0
    /\ nalloc = 0
    /\ stream = <<>>
    /\ stream_parts = NoParts
    /\ rd_pos = 0
    /\ buf = <<>>
    /\ write_idx = 0
    /\ rt_pc = "off"
    /\ rt_exit = "none"
    /\ packet_chan = <<>>
    /\ CURR_RADIO = radio_num
    /\ rx_alive = TRUE
    /\ fn_pc = "off"
    /\ fn_in \in SeqsUpTo(ConsumePackets, MaxPackets)
    /\ fn_out = <<>>

\* the packets waiting in the channel: those sent and not yet taken
Waiting == SubSeq(packet_chan, Len(fn_out) + 1, Len(packet_chan))

\* recv_telem's match on each packet of ps in turn: recv_ack for a Status
RECURSIVE RecvEach(_, _)
RecvEach(ch, ps) ==
    IF ps = <<>> THEN ch
    ELSE RecvEach(IF Head(ps).kind = "Status" THEN recv_ack(ch, Head(ps).tx_status) ELSE ch,
                  Tail(ps))

\* the radio thread sends its next packet down packet_tx
RadioSends ==
    /\ fn_in # <<>>
    /\ packet_chan' = Append(packet_chan, Head(fn_in))
    /\ fn_in' = Tail(fn_in)
    /\ UNCHANGED <<fn_pc, fn_out>>
    /\ UNCHANGED <<stream, stream_parts, rd_pos, buf, write_idx, rt_pc, rt_exit, CURR_RADIO,
                   rx_alive>>
    /\ UNCHANGED <<cx_vars, ack_vars, ledger_vars, gen_vars, sim_vars>>

\* recv_telem: every packet waiting is taken, pushed to packet_log and
\* matched; the receiver is put back when the channel is empty
RecvTelem ==
    /\ Waiting # <<>>
    /\ fn_out' = fn_out \o Waiting
    /\ command_history' = RecvEach(command_history, Waiting)
    /\ UNCHANGED <<fn_pc, fn_in>>
    /\ UNCHANGED <<cmd_receiver, radio, radio_last_sent, FRAME_ID_COUNTER, radio_lock, now,
                   utc, hc_pc, hc_cursor, hc_frame_id, transport_out, written, opened_at,
                   nsub, nalloc>>
    /\ UNCHANGED <<cx_vars, ack_vars, reader_vars, gen_vars, sim_vars>>

\* close_radio: self.radio = None, CURR_RADIO moves on, and every packet
\* waiting is taken and pushed to packet_log; a packet that is not Telemetry
\* goes to recover_telemetry, which gives nothing for these packets
CloseRadioDrain ==
    /\ radio = "open"
    /\ radio' = "none"
    /\ CURR_RADIO' = CURR_RADIO + 1
    /\ fn_out' = fn_out \o Waiting
    /\ UNCHANGED <<fn_pc, fn_in>>
    /\ UNCHANGED <<command_history, cmd_receiver, radio_last_sent, FRAME_ID_COUNTER,
                   radio_lock, now, utc, hc_pc, hc_cursor, hc_frame_id, transport_out,
                   written, opened_at, nsub, nalloc>>
    /\ UNCHANGED <<stream, stream_parts, rd_pos, buf, write_idx, rt_pc, rt_exit, packet_chan,
                   rx_alive>>
    /\ UNCHANGED <<cx_vars, ack_vars, gen_vars, sim_vars>>

InitConsume == ConsumeInit /\ CxIdle /\ AckIdle /\ GenIdle /\ SimIdle

NextConsume == RadioSends \/ RecvTelem \/ CloseRadioDrain

SpecConsume == InitConsume /\ [][NextConsume]_vars

\* the packets taken from the channel in this step
Taken == SubSeq(packet_chan, Len(fn_out) + 1, Len(fn_out'))

\* a Success status for a command that is Sent is among them
TakesAck ==
    \E i \in 1..Len(Taken) :
        /\ Taken[i].kind = "Status"
        /\ Taken[i].tx_status.status = SUCCESS
        /\ SentWith(command_history, Taken[i].tx_status.frame_id) # {}

\* C36: every Status the consumer takes from the channel is passed to
\* recv_ack, in recv_telem and in the drain of close_radio alike: when a
\* Success status for a Sent command is taken, the ledger after the step
\* is the ledger with the statuses taken applied to it.
C36_StatusReachesLedger ==
    [][TakesAck => command_history' = RecvEach(command_history, Taken)]_vars

\* the same for the packets taken while the link stays open
C36_StatusReachesLedgerOpen ==
    [][(TakesAck /\ radio' = "open") => command_history' = RecvEach(command_history, Taken)]_vars

\* a Success status for frame id 1 is in packet_log, taken by close_radio,
\* and the command it acknowledges is still Sent
C36_AckLost ==
    /\ radio = "none"
    /\ fn_out = <<StatusPacket(1, SUCCESS)>>
    /\ command_history[2].status = Sent(1)

----------------------------------------------------------------------------
(* Simulation mode: sim_window, load_sim_file and simp_thread               *)
(* (src/src/app/mod.rs)                                                     *)

\* the most values a simulation file holds, and the most sender threads
\* started
MaxSimps == 2
MaxSimThreads == 2

SimThread(pc, left, paused) == [pc |-> pc, left |-> left, paused |-> paused]

\* the program has started: no file loaded, no thread
SimInit ==
    /\ SEND_THREAD_STARTED = FALSE
    /\ SEND_THREAD_PAUSED = FALSE
    /\ SEND_THREAD_CANCEL = FALSE
    /\ SENT_SIMPS = 0
    /\ simp_values = NO_SIMPS
    /\ simp_graph_values = NO_SIMPS
    /\ simp_threads = <<>>
    /\ gui_pc = "running"

\* recv_sim_file got a path and load_sim_file read n values from it
LoadSimFile ==
    /\ gui_pc = "running"
    /\ \E n \in 0..MaxSimps :
        /\ simp_values' = n
        /\ simp_graph_values' = n
    /\ UNCHANGED <<SEND_THREAD_STARTED, SEND_THREAD_PAUSED, SEND_THREAD_CANCEL, SENT_SIMPS,
                   simp_threads, gui_pc>>
    /\ UNCHANGED <<cx_vars, ack_vars, ledger_vars, reader_vars, gen_vars, fn_vars>>

\* sim_window draws the plot: simps[..sent] and simps[sent..] are in range
PlotDrawn ==
    /\ gui_pc = "running"
    /\ simp_graph_values # NO_SIMPS
    /\ SENT_SIMPS <= simp_graph_values

\* sim_window: simps[..sent] with sent past the end of simps panics
SW_PlotPanics ==
    /\ gui_pc = "running"
    /\ simp_graph_values # NO_SIMPS
    /\ SENT_SIMPS > simp_graph_values
    /\ gui_pc' = "panicked"
    /\ UNCHANGED <<SEND_THREAD_STARTED, SEND_THREAD_PAUSED, SEND_THREAD_CANCEL, SENT_SIMPS,
                   simp_values, simp_graph_values, simp_threads>>
    /\ UNCHANGED <<cx_vars, ack_vars, ledger_vars, reader_vars, gen_vars, fn_vars>>

\* sim_window, the thread is started and paused: "play" clicked
SW_Play ==
    /\ PlotDrawn
    /\ SEND_THREAD_STARTED /\ SEND_THREAD_PAUSED
    /\ SEND_THREAD_PAUSED' = FALSE
    /\ UNCHANGED <<SEND_THREAD_STARTED, SEND_THREAD_CANCEL, SENT_SIMPS, simp_values,
                   simp_graph_values, simp_threads, gui_pc>>
    /\ UNCHANGED <<cx_vars, ack_vars, ledger_vars, reader_vars, gen_vars, fn_vars>>

\* sim_window, the thread is started and not paused: "pause" clicked
SW_Pause ==
    /\ PlotDrawn
    /\ SEND_THREAD_STARTED /\ ~SEND_THREAD_PAUSED
    /\ SEND_THREAD_PAUSED' = TRUE
    /\ UNCHANGED <<SEND_THREAD_STARTED, SEND_THREAD_CANCEL, SENT_SIMPS, simp_values,
                   simp_graph_values, simp_threads, gui_pc>>
    /\ UNCHANGED <<cx_vars, ack_vars, ledger_vars, reader_vars, gen_vars, fn_vars>>

\* sim_window, the thread is started: "cancel" clicked
SW_Cancel ==
    /\ PlotDrawn
    /\ SEND_THREAD_STARTED
    /\ SEND_THREAD_CANCEL' = TRUE
    /\ UNCHANGED <<SEND_THREAD_STARTED, SEND_THREAD_PAUSED, SENT_SIMPS, simp_values,
                   simp_graph_values, simp_threads, gui_pc>>
    /\ UNCHANGED <<cx_vars, ack_vars, ledger_vars, reader_vars, gen_vars, fn_vars>>

\* sim_window, the thread is not started: "Start sending" clicked, the flag
\* is set, the values are copied and the thread is spawned with them
SW_Start ==
    /\ PlotDrawn
    /\ ~SEND_THREAD_STARTED
    /\ Len(simp_threads) < MaxSimThreads
    /\ SEND_THREAD_STARTED' = TRUE
    /\ IF simp_values = NO_SIMPS
       THEN simp_graph_values' = NO_SIMPS /\ UNCHANGED simp_threads
       ELSE /\ simp_threads' = Append(simp_threads, SimThread("start", simp_values, FALSE))
            /\ UNCHANGED simp_graph_values
    /\ UNCHANGED <<SEND_THREAD_PAUSED, SEND_THREAD_CANCEL, SENT_SIMPS, simp_values, gui_pc>>
    /\ UNCHANGED <<cx_vars, ack_vars, ledger_vars, reader_vars, gen_vars, fn_vars>>

\* the same click when thread::Builder::spawn returns an error: the error is
\* logged and shown
SW_StartFailed ==
    /\ PlotDrawn
    /\ ~SEND_THREAD_STARTED
    /\ simp_values # NO_SIMPS
    /\ SEND_THREAD_STARTED' = TRUE
    /\ UNCHANGED <<SEND_THREAD_PAUSED, SEND_THREAD_CANCEL, SENT_SIMPS, simp_values,
                   simp_graph_values, simp_threads, gui_pc>>
    /\ UNCHANGED <<cx_vars, ack_vars, ledger_vars, reader_vars, gen_vars, fn_vars>>

\* thread number i moves to position pc
ThreadAt(i, pc) == simp_threads' = [simp_threads EXCEPT ![i].pc = pc]

\* simp_thread: send_start_packets before the loop.  The commands go down
\* cmd_sender, whose receiver lives as long as the GUI: the sends succeed
ST_Begin(i) ==
    /\ simp_threads[i].pc = "start"
    /\ ThreadAt(i, "check")
    /\ UNCHANGED <<SEND_THREAD_STARTED, SEND_THREAD_PAUSED, SEND_THREAD_CANCEL, SENT_SIMPS,
                   simp_values, simp_graph_values, gui_pc>>
    /\ UNCHANGED <<cx_vars, ack_vars, ledger_vars, reader_vars, gen_vars, fn_vars>>

\* simp_thread, top of the loop: SEND_THREAD_CANCEL.compare_exchange(true, false)
ST_Check(i) ==
    /\ simp_threads[i].pc = "check"
    /\ IF SEND_THREAD_CANCEL
       THEN SEND_THREAD_CANCEL' = FALSE /\ ThreadAt(i, "cancel_paused")
       ELSE UNCHANGED SEND_THREAD_CANCEL /\ ThreadAt(i, "pause")
    /\ UNCHANGED <<SEND_THREAD_STARTED, SEND_THREAD_PAUSED, SENT_SIMPS, simp_values,
                   simp_graph_values, gui_pc>>
    /\ UNCHANGED <<cx_vars, ack_vars, ledger_vars, reader_vars, gen_vars, fn_vars>>

\* simp_thread, cancelling: stop_sending, SEND_THREAD_PAUSED.store(false)
ST_CancelPaused(i) ==
    /\ simp_threads[i].pc = "cancel_paused"
    /\ SEND_THREAD_PAUSED' = FALSE
    /\ ThreadAt(i, "cancel_started")
    /\ UNCHANGED <<SEND_THREAD_STARTED, SEND_THREAD_CANCEL, SENT_SIMPS, simp_values,
                   simp_graph_values, gui_pc>>
    /\ UNCHANGED <<cx_vars, ack_vars, ledger_vars, reader_vars, gen_vars, fn_vars>>

\* simp_thread, cancelling: SEND_THREAD_STARTED.store(false)
ST_CancelStarted(i) ==
    /\ simp_threads[i].pc = "cancel_started"
    /\ SEND_THREAD_STARTED' = FALSE
    /\ ThreadAt(i, "cancel_sent")
    /\ UNCHANGED <<SEND_THREAD_PAUSED, SEND_THREAD_CANCEL, SENT_SIMPS, simp_values,
                   simp_graph_values, gui_pc>>
    /\ UNCHANGED <<cx_vars, ack_vars, ledger_vars, reader_vars, gen_vars, fn_vars>>

\* simp_thread, cancelling: SENT_SIMPS.store(0), return
ST_CancelSent(i) ==
    /\ simp_threads[i].pc = "cancel_sent"
    /\ SENT_SIMPS' = 0
    /\ ThreadAt(i, "done")
    /\ UNCHANGED <<SEND_THREAD_STARTED, SEND_THREAD_PAUSED, SEND_THREAD_CANCEL, simp_values,
                   simp_graph_values, gui_pc>>
    /\ UNCHANGED <<cx_vars, ack_vars, ledger_vars, reader_vars, gen_vars, fn_vars>>

\* simp_thread: SEND_THREAD_PAUSED.load(); paused: stop_sending when newly
\* paused, sleep, continue; not paused: send_start_packets after a pause
ST_Pause(i) ==
    /\ simp_threads[i].pc = "pause"
    /\ simp_threads' = [simp_threads EXCEPT
            ![i].paused = SEND_THREAD_PAUSED,
            ![i].pc = IF SEND_THREAD_PAUSED THEN "check" ELSE "send"]
    /\ UNCHANGED <<SEND_THREAD_STARTED, SEND_THREAD_PAUSED, SEND_THREAD_CANCEL, SENT_SIMPS,
                   simp_values, simp_graph_values, gui_pc>>
    /\ UNCHANGED <<cx_vars, ack_vars, ledger_vars, reader_vars, gen_vars, fn_vars>>

\* simp_thread: simp_iter.next(); a value is sent and SENT_SIMPS.fetch_add(1),
\* then the sleep; at the end of the iterator, return
ST_Send(i) ==
    /\ simp_threads[i].pc = "send"
    /\ IF simp_threads[i].left > 0
       THEN /\ simp_threads' = [simp_threads EXCEPT ![i].left = @ - 1, ![i].pc = "check"]
            /\ SENT_SIMPS' = SENT_SIMPS + 1
       ELSE /\ ThreadAt(i, "done")
            /\ UNCHANGED SENT_SIMPS
    /\ UNCHANGED <<SEND_THREAD_STARTED, SEND_THREAD_PAUSED, SEND_THREAD_CANCEL, simp_values,
                   simp_graph_values, gui_pc>>
    /\ UNCHANGED <<cx_vars, ack_vars, ledger_vars, reader_vars, gen_vars, fn_vars>>

InitSim == SimInit /\ CxIdle /\ AckIdle /\ LedgerIdle /\ ReaderIdle /\ GenIdle /\ FnIdle

NextSim ==
    \/ LoadSimFile
    \/ SW_PlotPanics
    \/ SW_Play
    \/ SW_Pause
    \/ SW_Cancel
    \/ SW_Start
    \/ SW_StartFailed
    \/ \E i \in DOMAIN simp_threads : ST_Begin(i)
    \/ \E i \in DOMAIN simp_threads : ST_Check(i)
    \/ \E i \in DOMAIN simp_threads : ST_CancelPaused(i)
    \/ \E i \in DOMAIN simp_threads : ST_CancelStarted(i)
    \/ \E i \in DOMAIN simp_threads : ST_CancelSent(i)
    \/ \E i \in DOMAIN simp_threads : ST_Pause(i)
    \/ \E i \in DOMAIN simp_threads : ST_Send(i)

SpecSim == InitSim /\ [][NextSim]_vars

\* the sender threads that exist: started and not returned
AliveThreads == {i \in DOMAIN simp_threads : simp_threads[i].pc # "done"}

\* of these, the ones that have not yet stored false to SEND_THREAD_STARTED
SendingThreads ==
    {i \in DOMAIN simp_threads : simp_threads[i].pc \notin {"cancel_sent", "done"}}

\* C37: SEND_THREAD_STARTED is true exactly while a sender thread exists:
\* at most one is alive at any time, and once the thread has ended or has
\* failed to start the flag is false.
C37_FlagWhileThread ==
    /\ Cardinality(AliveThreads) <= 1
    /\ SEND_THREAD_STARTED <=> AliveThreads # {}

\* at most one thread is before its store of false to the flag, and the
\* flag is true while there is one
C37_OneSendingThread ==
    /\ Cardinality(SendingThreads) <= 1
    /\ SendingThreads # {} => SEND_THREAD_STARTED

\* the thread has returned at the end of its values and the flag is still
\* true
C37_FlagLeftSet ==
    /\ SEND_THREAD_STARTED
    /\ simp_threads # <<>>
    /\ \A i \in DOMAIN simp_threads : simp_threads[i].pc = "done" /\ simp_threads[i].left = 0
    /\ ~SEND_THREAD_CANCEL

\* C38: the count of values sent is at most the number of values loaded
\* for display, so simps[..sent] and simps[sent..] are in range.
C38_SentWithinLoaded == simp_graph_values # NO_SIMPS => SENT_SIMPS <= simp_graph_values

\* while the file loaded is the one the only thread started was given, the
\* count is within it
C38_SentWithinCopied ==
    (Len(simp_threads) = 1 /\ simp_graph_values = simp_threads[1].left + SENT_SIMPS)
        => SENT_SIMPS <= simp_graph_values

\* the sender has sent more values than the file loaded since holds and
\* sim_window has panicked on the slice
C38_PlotOutOfRange == gui_pc = "panicked"

====
